---- MODULE Spec2Model ----
(***************************************************************************)
(* GarminBot: the sync scheduler (src/scheduler/jobs.py, src/main.py), the *)
(* repository it writes to (src/database/repository.py) and the provider   *)
(* client it reads from (src/garmin/client.py).                            *)
(*                                                                         *)
(* Time is counted in ticks; TicksPerDay ticks make one day.  `now` is the *)
(* UTC clock.  datetime.now(UTC) is `now`; date.today() is the local date, *)
(* the UTC clock shifted by the zone offset `tz`.                          *)
(***************************************************************************)
EXTENDS Integers, Sequences, FiniteSets, TLC

\* ---------------------------------------------------------------------
\* Bounds of the exploration
\* ---------------------------------------------------------------------
TicksPerDay == 3
MaxTime == 3
MaxLog == 3
BackfillWindow == 1
MaxCommands == 1
TzOffsets == {0, 1}
MaxCalls == 2
MaxDate == 1
MaxRows == 6

\* ---------------------------------------------------------------------
\* Configuration (src/config.py, expressed in ticks of the local day)
\* ---------------------------------------------------------------------
WakeStartTick == 0
WakeEndTick == 2
SyncTick == 0
ReportTick == 1
RetryDelayTicks == 1

\* Python None / SQL NULL in a numeric column
None == -1

\* ---------------------------------------------------------------------
\* Clock
\* ---------------------------------------------------------------------
utc_day(t) == t \div TicksPerDay

\* datetime.now(UTC).replace(hour=0, minute=0, second=0, microsecond=0)
today_start(t) == utc_day(t) * TicksPerDay

\* date.today(): the calendar date of the local zone
date_today(t, z) == (t + z) \div TicksPerDay

\* time of day the cron triggers compare against (timezone=tz)
local_tod(t, z) == (t + z) % TicksPerDay

\* ---------------------------------------------------------------------
\* Repository: sync_log
\* ---------------------------------------------------------------------
NoMessage == "none"
ExcMessage == "exc"

\* log_sync as an update of the latest row instead of an insert
log_sync_overwrite(log, t, status, error_message) ==
    IF log = <<>>
    THEN <<[sync_date |-> t, status |-> status, error_message |-> error_message]>>
    ELSE [log EXCEPT ![Len(log)] =
            [sync_date |-> t, status |-> status, error_message |-> error_message]]

\* Repository.log_sync: session.add(SyncLog(sync_date=now, status, error_message))
log_sync(log, t, status, error_message) ==
    Append(log, [sync_date |-> t, status |-> status, error_message |-> error_message])

\* log_report_sent writing a status the report guard does not look for
log_report_sent_other_status(log, t) == log_sync(log, t, "report", NoMessage)

\* Repository.log_report_sent
log_report_sent(log, t) == log_sync(log, t, "report_sent", NoMessage)

\* has_successful_sync_today with the day's first instant left out
has_successful_sync_today_strict(log, t) ==
    \E i \in 1..Len(log) :
        log[i].status = "success" /\ log[i].sync_date > today_start(t)

\* has_successful_sync_today counting a partial sync as done
has_successful_sync_today_partial(log, t) ==
    \E i \in 1..Len(log) :
        log[i].status \in {"success", "partial"} /\ log[i].sync_date >= today_start(t)

\* Repository.has_successful_sync_today
has_successful_sync_today(log, t) ==
    \E i \in 1..Len(log) :
        log[i].status = "success" /\ log[i].sync_date >= today_start(t)

\* has_report_sent_today with the day's first instant left out
has_report_sent_today_strict(log, t) ==
    \E i \in 1..Len(log) :
        log[i].status = "report_sent" /\ log[i].sync_date > today_start(t)

\* Repository.has_report_sent_today
has_report_sent_today(log, t) ==
    \E i \in 1..Len(log) :
        log[i].status = "report_sent" /\ log[i].sync_date >= today_start(t)

\* sum(seq)
RECURSIVE Sum(_)
Sum(seq) == IF seq = <<>> THEN 0 ELSE Head(seq) + Sum(Tail(seq))

\* ---------------------------------------------------------------------
\* Repository: daily_metrics (a table: a sequence of rows in insert order)
\* ---------------------------------------------------------------------
\* The attributes of DailyMetrics a metrics dict can set (hasattr).
\* sleep_quality follows sleep_score, active/resting calories follow
\* steps, stress and body battery follow resting_heart_rate: each group is
\* filled by one provider call and written by the same loop, so one column
\* stands for its group.  The table has a weight_kg column
\* (_run_migrations adds it) but the class DailyMetrics declares no such
\* attribute.
MetricColumns ==
    {"sleep_hours", "sleep_score", "steps", "resting_heart_rate",
     "garmin_sync_success"}

\* index of the first row of the date, 0 when there is none
\* (session.query(DailyMetrics).filter_by(date=day).first())
RowIndex(rows, day) ==
    IF \E i \in 1..Len(rows) : rows[i].date = day
    THEN CHOOSE i \in 1..Len(rows) :
            /\ rows[i].date = day
            /\ \A j \in 1..(i - 1) : rows[j].date # day
    ELSE 0

\* Repository.get_metrics_by_date: TRUE when a row exists
has_row(rows, day) == RowIndex(rows, day) # 0

\* the value a new row takes for a column: the one the dict gives for an
\* attribute of the class ({k: v ... if hasattr(DailyMetrics, k)}), else
\* the column default
ColumnValue(metrics, k, default) ==
    IF k \in (DOMAIN metrics \cap MetricColumns) THEN metrics[k] ELSE default

\* DailyMetrics(date=day, synced_at=now, **metrics): unset columns take the
\* column default (NULL; garmin_sync_success defaults to True)
NewRow(rows, day, t, metrics) ==
    [id |-> Len(rows) + 1,
     date |-> day,
     synced_at |-> t,
     sleep_hours |-> ColumnValue(metrics, "sleep_hours", None),
     sleep_score |-> ColumnValue(metrics, "sleep_score", None),
     steps |-> ColumnValue(metrics, "steps", None),
     resting_heart_rate |-> ColumnValue(metrics, "resting_heart_rate", None),
     weight_kg |-> ColumnValue(metrics, "weight_kg", None),
     garmin_sync_success |-> ColumnValue(metrics, "garmin_sync_success", TRUE)]

\* for key, value in metrics.items(): setattr(existing, key, value);
\* existing.synced_at = now
UpdatedRow(row, t, metrics) ==
    [k \in DOMAIN row |->
        IF k = "synced_at" THEN t
        ELSE IF k \in (DOMAIN metrics \cap MetricColumns) THEN metrics[k]
        ELSE row[k]]

\* save_daily_metrics inserting a row whether or not the date has one
save_daily_metrics_insert(rows, day, t, metrics) ==
    Append(rows, NewRow(rows, day, t, metrics))

\* Repository.save_daily_metrics
save_daily_metrics(rows, day, t, metrics) ==
    LET i == RowIndex(rows, day) IN
    IF i # 0
    THEN [rows EXCEPT ![i] = UpdatedRow(rows[i], t, metrics)]
    ELSE Append(rows, NewRow(rows, day, t, metrics))

\* Repository.save_manual_weight: an existing row gets the attribute
\* weight_kg assigned, which reaches the table only when the class maps
\* that column; without a row the constructor is called with weight_kg as
\* a keyword, which it rejects (TypeError, the session rolls back) unless
\* the class has the attribute
save_manual_weight(rows, day, t, weight_kg) ==
    LET i == RowIndex(rows, day) IN
    IF i # 0
    THEN [rows |-> IF "weight_kg" \in MetricColumns
                   THEN [rows EXCEPT ![i].weight_kg = weight_kg]
                   ELSE rows,
          raised |-> FALSE]
    ELSE IF "weight_kg" \in MetricColumns
         THEN [rows |-> Append(rows, NewRow(rows, day, t,
                            [weight_kg |-> weight_kg, garmin_sync_success |-> FALSE])),
               raised |-> FALSE]
         ELSE [rows |-> rows, raised |-> TRUE]

\* get_metrics_range leaving the first date of the range out
stored_dates_after_start(rows, start_date, end_date) ==
    {rows[i].date : i \in {j \in 1..Len(rows) :
        rows[j].date > start_date /\ rows[j].date <= end_date}}

\* Repository.get_metrics_range: the stored dates of the inclusive range
stored_dates(rows, start_date, end_date) ==
    {rows[i].date : i \in {j \in 1..Len(rows) :
        rows[j].date >= start_date /\ rows[j].date <= end_date}}

\* Repository.get_missing_dates: ascending list of the dates without a row
RECURSIVE missing_from(_, _, _)
missing_from(existing, current, end_date) ==
    IF current > end_date THEN <<>>
    ELSE IF current \notin existing
         THEN <<current>> \o missing_from(existing, current + 1, end_date)
         ELSE missing_from(existing, current + 1, end_date)

get_missing_dates(rows, start_date, end_date) ==
    missing_from(stored_dates(rows, start_date, end_date), start_date, end_date)

\* ---------------------------------------------------------------------
\* Provider client (src/garmin/client.py)
\* ---------------------------------------------------------------------
\* What one attempt of a provider call meets: whether a login, if one is
\* needed, succeeds, and how the provider answers the call itself.
CallOutcomes == {"auth_error", "error", "empty", "data"}

Outcome(login, call) == [login |-> login, call |-> call]

\* stop=stop_after_attempt(3)
StopAfterAttempt == 3

\* The answers the provider gives to the successive attempts of one
\* retried call (one answer per attempt; attempts that are not made leave
\* their answers unused).
ScriptData == <<Outcome(TRUE, "data"), Outcome(TRUE, "data"), Outcome(TRUE, "data")>>
ScriptEmpty == <<Outcome(TRUE, "empty"), Outcome(TRUE, "data"), Outcome(TRUE, "data")>>
ScriptAuthThenData == <<Outcome(TRUE, "auth_error"), Outcome(TRUE, "data"), Outcome(TRUE, "data")>>
ScriptError == <<Outcome(TRUE, "error"), Outcome(TRUE, "error"), Outcome(TRUE, "error")>>
ScriptAuthLost == <<Outcome(FALSE, "auth_error"), Outcome(FALSE, "data"), Outcome(FALSE, "data")>>
\* the provider refuses the first attempt, or every attempt, with its
\* rate-limit error (GarminConnectTooManyRequestsError)
ScriptRateLimited == <<Outcome(TRUE, "rate_limit"), Outcome(TRUE, "data"), Outcome(TRUE, "data")>>
\* the provider has, for the date asked, another night's record, or a
\* record with a score and no duration (sleepTimeSeconds null or 0)
ScriptOtherNight == <<Outcome(TRUE, "other_night"), Outcome(TRUE, "data"), Outcome(TRUE, "data")>>
ScriptScoreOnly == <<Outcome(TRUE, "score_only"), Outcome(TRUE, "data"), Outcome(TRUE, "data")>>
ScriptRateLimitedAll ==
    <<Outcome(TRUE, "rate_limit"), Outcome(TRUE, "rate_limit"), Outcome(TRUE, "rate_limit")>>

RetryScripts == {ScriptData, ScriptEmpty, ScriptAuthThenData, ScriptError, ScriptAuthLost}

\* values the provider returns when it has data
ProviderSleep == [hours |-> 7, score |-> 80]
ProviderSteps == 8000

EmptySleep == [hours |-> None, score |-> None]
ProviderOtherNight == [hours |-> 5, score |-> 60]
ProviderScoreOnly == [hours |-> None, score |-> 80]

\* the SleepData built from the provider's answer
SleepData(answer) ==
    IF answer = "data" THEN ProviderSleep
    ELSE IF answer = "other_night" THEN ProviderOtherNight
    ELSE IF answer = "score_only" THEN ProviderScoreOnly
    ELSE EmptySleep

\* GarminClient._ensure_authenticated / authenticate: a client without a
\* session logs in; raises when the login fails
ensure_authenticated(c, login) ==
    IF c = "none"
    THEN IF login THEN [client |-> "session", raised |-> FALSE]
                  ELSE [client |-> "none", raised |-> TRUE]
    ELSE [client |-> c, raised |-> FALSE]

\* one attempt of get_sleep_data / get_activity_data (the body under @retry)
FetchAttempt(c, o) ==
    LET a == ensure_authenticated(c, o.login) IN
    IF a.raised THEN [client |-> a.client, result |-> "raise"]
    ELSE IF o.call = "auth_error"
         THEN [client |-> "none", result |-> "raise"]   \* invalidate_token(); self._client = None; raise
    ELSE IF o.call \in {"error", "rate_limit"}
         THEN [client |-> a.client, result |-> "raise"]
    ELSE [client |-> a.client, result |-> o.call]

\* @retry(stop=stop_after_attempt(3), reraise=True)
RECURSIVE FetchWithRetry(_, _, _)
FetchWithRetry(c, script, n) ==
    LET r == FetchAttempt(c, script[n]) IN
    IF r.result # "raise" \/ n >= StopAfterAttempt
    THEN [client |-> r.client, result |-> r.result, attempts |-> n]
    ELSE FetchWithRetry(r.client, script, n + 1)

\* GarminClient.get_sleep_data
get_sleep_data(c, script) ==
    LET r == FetchWithRetry(c, script, 1) IN
    [client |-> r.client,
     raised |-> r.result = "raise",
     attempts |-> r.attempts,
     sleep |-> SleepData(r.result)]

\* GarminClient.get_activity_data
get_activity_data(c, script) ==
    LET r == FetchWithRetry(c, script, 1) IN
    [client |-> r.client,
     raised |-> r.result = "raise",
     attempts |-> r.attempts,
     steps |-> IF r.result = "data" THEN ProviderSteps ELSE None]

\* the resting heart rate the provider returns when it has data
ProviderHeartRate == 60

\* GarminClient.get_health_data: the session is established outside the
\* try blocks; the provider calls swallow every exception, the
\* authentication error included, and leave the session as it is
get_health_data(c, login, health) ==
    LET a == ensure_authenticated(c, login) IN
    [client |-> a.client,
     raised |-> a.raised,
     resting_heart_rate |->
        IF ~a.raised /\ health = "data" THEN ProviderHeartRate ELSE None]

\* check_sleep_available taking any answer of the provider for sleep data
check_sleep_available_any_answer(c, o) ==
    LET a == ensure_authenticated(c, o.login) IN
    IF a.raised THEN [client |-> a.client, raised |-> TRUE, available |-> FALSE]
    ELSE IF o.call = "auth_error"
         THEN [client |-> "none", raised |-> FALSE, available |-> FALSE]
    ELSE [client |-> a.client, raised |-> FALSE, available |-> (o.call \in {"data", "empty"})]

\* GarminClient.check_sleep_available
check_sleep_available(c, o) ==
    LET a == ensure_authenticated(c, o.login) IN
    IF a.raised THEN [client |-> a.client, raised |-> TRUE, available |-> FALSE]
    ELSE IF o.call = "auth_error"
         THEN [client |-> "none", raised |-> FALSE, available |-> FALSE]
    ELSE [client |-> a.client, raised |-> FALSE, available |-> (o.call = "data")]

\* the inputs of one run of the fetch pipeline: the provider's answers to
\* the sleep call and to the activity call, whether a login succeeds when
\* the health call needs one, and the provider's answer to the health call
FetchIn(sleep, activity, login, health) ==
    [sleep |-> sleep, activity |-> activity, login |-> login, health |-> health]

FetchInputs ==
    { FetchIn(ScriptData, ScriptData, TRUE, "data"),
      FetchIn(ScriptEmpty, ScriptData, TRUE, "auth_error"),
      FetchIn(ScriptEmpty, ScriptEmpty, TRUE, "data"),
      FetchIn(ScriptAuthThenData, ScriptAuthLost, TRUE, "data"),
      FetchIn(ScriptError, ScriptAuthLost, FALSE, "data") }

\* get_yesterday_summary asking for the sleep of yesterday, the date of the
\* activity
get_yesterday_summary_sleep_of_yesterday(c, t, z, in) ==
    LET today == date_today(t, z)
        yesterday == today - 1
        DailySummary(s, a, h) ==
            [client |-> h.client,
             raised |-> h.raised,
             asked |-> [sleep |-> yesterday, activity |-> yesterday, health |-> yesterday],
             fetched |-> [sleep |-> s, activity |-> a, health |-> h],
             summary |-> [date |-> yesterday,
                          sleep |-> s.sleep,
                          steps |-> a.steps,
                          resting_heart_rate |-> h.resting_heart_rate]]
        health(s, a) == DailySummary(s, a, get_health_data(a.client, in.login, in.health))
        activity(s) == health(s, get_activity_data(s.client, in.activity))
    IN  activity(get_sleep_data(c, in.sleep))

\* GarminClient.get_yesterday_summary: sleep of today, activity and health
\* of yesterday, dated yesterday. asked records the date each query is
\* made for; the queries are made in the order sleep, activity, health,
\* each from the session the one before it left.
get_yesterday_summary(c, t, z, in) ==
    LET today == date_today(t, z)
        yesterday == today - 1
        DailySummary(s, a, h) ==
            [client |-> h.client,
             raised |-> h.raised,
             asked |-> [sleep |-> today, activity |-> yesterday, health |-> yesterday],
             fetched |-> [sleep |-> s, activity |-> a, health |-> h],
             summary |-> [date |-> yesterday,
                          sleep |-> s.sleep,
                          steps |-> a.steps,
                          resting_heart_rate |-> h.resting_heart_rate]]
        health(s, a) == DailySummary(s, a, get_health_data(a.client, in.login, in.health))
        activity(s) == health(s, get_activity_data(s.client, in.activity))
    IN  activity(get_sleep_data(c, in.sleep))

\* Python truthiness of an optional number
Truthy(v) == v # None /\ v # 0

\* GarminClient.to_metrics_dict
to_metrics_dict(summary) ==
    [sleep_hours |-> summary.sleep.hours,
     sleep_score |-> summary.sleep.score,
     steps |-> summary.steps,
     resting_heart_rate |-> summary.resting_heart_rate,
     garmin_sync_success |->
        (Truthy(summary.sleep.hours) \/ Truthy(summary.sleep.score) \/ Truthy(summary.steps))]

\* get_summary_for_date asking for the sleep of day first, then of day+1
get_summary_for_date_same_day_first(c, day, in) ==
    LET found(s) == ~s.raised /\ s.sleep.hours # None
        DailySummary(s1, s2, a, h) ==
            [client |-> h.client,
             raised |-> h.raised,
             fetched |-> [sleep_next |-> [day |-> day + 1, called |-> ~found(s1), got |-> s2],
                          sleep |-> [day |-> day, called |-> TRUE, got |-> s1],
                          activity |-> [day |-> day, called |-> TRUE, got |-> a],
                          health |-> [day |-> day, called |-> TRUE, got |-> h]],
             summary |-> [date |-> day,
                          sleep |-> IF found(s1) THEN s1.sleep
                                    ELSE IF found(s2) THEN s2.sleep ELSE EmptySleep,
                          steps |-> a.steps,
                          resting_heart_rate |-> h.resting_heart_rate]]
        health(s1, s2, a) ==
            DailySummary(s1, s2, a, get_health_data(a.client, in.login, in.health))
        activity(s1, s2) == health(s1, s2, get_activity_data(s2.client, in.activity))
        sleep_of_next(s1) ==
            activity(s1, IF found(s1) THEN s1 ELSE get_sleep_data(s1.client, in.sleep_next))
    IN  sleep_of_next(get_sleep_data(c, in.sleep))

\* GarminClient.get_summary_for_date: sleep of day+1, else of day;
\* activity and health of day; dated day. fetched records, for each
\* query, the date asked for, whether it was made and what it returned
\* (the query of day is not made once day+1 gave a duration).
get_summary_for_date(c, day, in) ==
    LET found(s) == ~s.raised /\ s.sleep.hours # None
        DailySummary(s1, s2, a, h) ==
            [client |-> h.client,
             raised |-> h.raised,
             fetched |-> [sleep_next |-> [day |-> day + 1, called |-> TRUE, got |-> s1],
                          sleep |-> [day |-> day, called |-> ~found(s1), got |-> s2],
                          activity |-> [day |-> day, called |-> TRUE, got |-> a],
                          health |-> [day |-> day, called |-> TRUE, got |-> h]],
             summary |-> [date |-> day,
                          sleep |-> IF found(s1) THEN s1.sleep
                                    ELSE IF found(s2) THEN s2.sleep ELSE EmptySleep,
                          steps |-> a.steps,
                          resting_heart_rate |-> h.resting_heart_rate]]
        health(s1, s2, a) ==
            DailySummary(s1, s2, a, get_health_data(a.client, in.login, in.health))
        activity(s1, s2) == health(s1, s2, get_activity_data(s2.client, in.activity))
        sleep_of_day(s1) ==
            activity(s1, IF found(s1) THEN s1 ELSE get_sleep_data(s1.client, in.sleep))
    IN  sleep_of_day(get_sleep_data(c, in.sleep_next))

\* ---------------------------------------------------------------------
\* Jobs (src/scheduler/jobs.py)
\* ---------------------------------------------------------------------
\* The sync block shared by sync_yesterday_data_job, wake_check_job and
\* wake_fallback_job: fetch, convert, store, log the outcome; an exception
\* of the fetch or of the store (store = FALSE) logs an error instead.
SyncBlock_unlogged_failure(c, rows, log, t, z, in, store) ==
    LET status(metrics) == IF metrics.garmin_sync_success THEN "success" ELSE "partial"
        save(y, metrics) ==
            IF y.raised \/ ~store
            THEN [client |-> y.client, rows |-> rows, log |-> log,
                  failed |-> TRUE, stores |-> 0,
                  fetched |-> y.fetched, summary |-> y.summary]
            ELSE [client |-> y.client,
                  rows |-> save_daily_metrics(rows, y.summary.date, t, metrics),
                  log |-> log_sync(log, t, status(metrics), NoMessage),
                  failed |-> FALSE, stores |-> 1,
                  fetched |-> y.fetched, summary |-> y.summary]
        convert(y) == save(y, to_metrics_dict(y.summary))
    IN  convert(get_yesterday_summary(c, t, z, in))

\* the sync block with a store whose failed write keeps the part of the
\* record it had written
SyncBlock_partial_write(c, rows, log, t, z, in, store) ==
    LET status(metrics) == IF metrics.garmin_sync_success THEN "success" ELSE "partial"
        save(y, metrics) ==
            IF y.raised
            THEN [client |-> y.client, rows |-> rows,
                  log |-> log_sync(log, t, "error", ExcMessage),
                  failed |-> TRUE, stores |-> 0,
                  fetched |-> y.fetched, summary |-> y.summary]
            ELSE IF ~store
            THEN [client |-> y.client,
                  rows |-> save_daily_metrics(rows, y.summary.date, t,
                                              [sleep_hours |-> metrics.sleep_hours]),
                  log |-> log_sync(log, t, "error", ExcMessage),
                  failed |-> TRUE, stores |-> 0,
                  fetched |-> y.fetched, summary |-> y.summary]
            ELSE [client |-> y.client,
                  rows |-> save_daily_metrics(rows, y.summary.date, t, metrics),
                  log |-> log_sync(log, t, status(metrics), NoMessage),
                  failed |-> FALSE, stores |-> 1,
                  fetched |-> y.fetched, summary |-> y.summary]
        convert(y) == save(y, to_metrics_dict(y.summary))
    IN  convert(get_yesterday_summary(c, t, z, in))

SyncBlock(c, rows, log, t, z, in, store) ==
    LET status(metrics) == IF metrics.garmin_sync_success THEN "success" ELSE "partial"
        save(y, metrics) ==
            IF y.raised \/ ~store
            THEN [client |-> y.client, rows |-> rows,
                  log |-> log_sync(log, t, "error", ExcMessage),
                  failed |-> TRUE, stores |-> 0,
                  fetched |-> y.fetched, summary |-> y.summary]
            ELSE [client |-> y.client,
                  rows |-> save_daily_metrics(rows, y.summary.date, t, metrics),
                  log |-> log_sync(log, t, status(metrics), NoMessage),
                  failed |-> FALSE, stores |-> 1,
                  fetched |-> y.fetched, summary |-> y.summary]
        convert(y) == save(y, to_metrics_dict(y.summary))
    IN  convert(get_yesterday_summary(c, t, z, in))

\* _send_daily_report: without a row for yesterday the no-data alert goes
\* out (send_error swallows its own failures) and the report is marked
\* sent; with a row the summary is sent and marked sent, and a failed send
\* (send = FALSE) raises before the mark
\* the report step leaving the no-data alert unmarked
send_daily_report_alert_unmarked(rows, log, t, z, send) ==
    LET yesterday == date_today(t, z) - 1 IN
    IF ~has_row(rows, yesterday)
    THEN [log |-> log, raised |-> FALSE, notified |-> "alert"]
    ELSE IF send
         THEN [log |-> log_report_sent(log, t), raised |-> FALSE, notified |-> "summary"]
         ELSE [log |-> log, raised |-> TRUE, notified |-> "none"]

send_daily_report(rows, log, t, z, send) ==
    LET yesterday == date_today(t, z) - 1 IN
    IF ~has_row(rows, yesterday)
    THEN [log |-> log_report_sent(log, t), raised |-> FALSE, notified |-> "alert"]
    ELSE IF send
         THEN [log |-> log_report_sent(log, t), raised |-> FALSE, notified |-> "summary"]
         ELSE [log |-> log, raised |-> TRUE, notified |-> "none"]

\* the inputs of the reconcile of one date: the provider's answers to the
\* two sleep calls and to the activity call, the login of the health call,
\* the provider's answer to it, and whether the store accepts the write
BackfillIn(sleep_next, sleep, activity, login, health, store) ==
    [sleep_next |-> sleep_next, sleep |-> sleep, activity |-> activity,
     login |-> login, health |-> health, store |-> store]

\* the cases explored by the startup pass: data, no data, a failed fetch
StartupInputs ==
    { BackfillIn(ScriptData, ScriptData, ScriptData, TRUE, "data", TRUE),
      BackfillIn(ScriptEmpty, ScriptEmpty, ScriptEmpty, TRUE, "empty", TRUE),
      BackfillIn(ScriptError, ScriptData, ScriptAuthLost, FALSE, "data", TRUE) }

\* the cases explored by the on-demand pass: the same, and a failed store
BackfillInputs ==
    StartupInputs \cup { BackfillIn(ScriptData, ScriptData, ScriptData, TRUE, "data", FALSE) }

\* the reconcile loop storing no record for a date without any data, and
\* logging it as a success all the same
RECURSIVE backfill_loop_unsaved(_, _, _, _, _, _, _, _)
backfill_loop_unsaved(c, rows, log, t, days, ins, i, log_errors) ==
    IF i > Len(days)
    THEN [client |-> c, rows |-> rows, log |-> log]
    ELSE LET save(y) ==
                 IF y.raised \/ ~ins[i].store
                 THEN backfill_loop_unsaved(y.client, rows,
                                    IF log_errors THEN log_sync(log, t, "error", ExcMessage)
                                                  ELSE log,
                                    t, days, ins, i + 1, log_errors)
                 ELSE backfill_loop_unsaved(y.client,
                                    IF to_metrics_dict(y.summary).garmin_sync_success
                                    THEN save_daily_metrics(rows, days[i], t,
                                                            to_metrics_dict(y.summary))
                                    ELSE rows,
                                    log_sync(log, t, "success", NoMessage),
                                    t, days, ins, i + 1, log_errors)
         IN  save(get_summary_for_date(c, days[i], ins[i]))

\* The reconcile loop of _run_startup_backfill and backfill_callback over
\* the missing dates days[i..]: fetch the date, store it, log success; an
\* exception skips to the next date, logged as an error by
\* backfill_callback (log_errors) and only printed by the startup pass.
RECURSIVE backfill_loop(_, _, _, _, _, _, _, _)
backfill_loop(c, rows, log, t, days, ins, i, log_errors) ==
    IF i > Len(days)
    THEN [client |-> c, rows |-> rows, log |-> log]
    ELSE LET save(y) ==
                 IF y.raised \/ ~ins[i].store
                 THEN backfill_loop(y.client, rows,
                                    IF log_errors THEN log_sync(log, t, "error", ExcMessage)
                                                  ELSE log,
                                    t, days, ins, i + 1, log_errors)
                 ELSE backfill_loop(y.client,
                                    save_daily_metrics(rows, days[i], t,
                                                       to_metrics_dict(y.summary)),
                                    log_sync(log, t, "success", NoMessage),
                                    t, days, ins, i + 1, log_errors)
         IN  save(get_summary_for_date(c, days[i], ins[i]))

\* ---------------------------------------------------------------------
\* State
\* ---------------------------------------------------------------------
VARIABLES
    now,             \* UTC clock, in ticks
    tz,              \* zone offset of the local clock, in ticks
    wake_detection,  \* config.wake_detection
    phase,           \* "startup" before scheduler.start(), then "running"
    client,          \* GarminClient._client: "none" or "session"
    sync_log,        \* table sync_log
    daily_metrics,   \* table daily_metrics
    fired,           \* triggers that already fired at this tick
    last,            \* what the latest invocation did (observation only)
    pipeline_runs,   \* sync pipeline runs of wake check and fallback in
                     \* the current UTC day (observation only)
    commands         \* user commands handled so far (bounds the exploration)

vars == <<now, tz, wake_detection, phase, client, sync_log, daily_metrics,
          fired, last, pipeline_runs, commands>>

\* the record of one invocation: the trigger or command, whether its guard
\* made it return at once, the provider's answer to the availability query
\* ("none" when none was made), the number of summary fetches, the number
\* of committed record writes, the notification that went out, and whether
\* the invocation ended by raising
Obs(op, skipped, answer, fetches, stores, notified, raised) ==
    [op |-> op, skipped |-> skipped, answer |-> answer,
     fetches |-> fetches, stores |-> stores,
     notified |-> notified, raised |-> raised]

Init ==
    /\ now = 0
    /\ tz \in TzOffsets
    /\ wake_detection \in BOOLEAN
    /\ phase = "startup"
    /\ client = "none"
    /\ sync_log = <<>>
    /\ daily_metrics = <<>>
    /\ fired = {}
    /\ last = Obs("init", FALSE, "none", 0, 0, "none", FALSE)
    /\ pipeline_runs = 0
    /\ commands = 0

\* the clock advances; the triggers of the new tick have not fired yet
Tick ==
    /\ phase = "running"
    /\ now < MaxTime
    /\ now' = now + 1
    /\ fired' = {}
    /\ pipeline_runs' = IF utc_day(now + 1) # utc_day(now) THEN 0 ELSE pipeline_runs
    /\ last' = Obs("tick", FALSE, "none", 0, 0, "none", FALSE)
    /\ UNCHANGED <<tz, wake_detection, phase, client, sync_log, daily_metrics, commands>>

\* a cron trigger fires once at its tick of the local day
Due(job, tods) ==
    /\ phase = "running"
    /\ job \notin fired
    /\ local_tod(now, tz) \in tods

\* room in the explored log for k more entries
Room(k) == Len(sync_log) + k <= MaxLog

\* wake_check_job
WakeCheck ==
    /\ wake_detection
    /\ Due("wake_check", WakeStartTick..(WakeEndTick - 1))
    /\ fired' = fired \cup {"wake_check"}
    /\ UNCHANGED <<now, tz, wake_detection, phase, commands>>
    /\ IF has_report_sent_today(sync_log, now)
       THEN /\ last' = Obs("wake_check", TRUE, "none", 0, 0, "none", FALSE)
            /\ UNCHANGED <<client, sync_log, daily_metrics, pipeline_runs>>
       ELSE \E o \in [login : BOOLEAN, call : CallOutcomes] :
            \E chk \in {check_sleep_available(client, o)} :
            IF chk.raised \/ ~chk.available
            THEN /\ client' = chk.client
                 /\ last' = Obs("wake_check", FALSE,
                                IF chk.raised THEN "login_failed" ELSE o.call,
                                0, 0, "none", chk.raised)
                 /\ UNCHANGED <<sync_log, daily_metrics, pipeline_runs>>
            ELSE /\ Room(2)
                 /\ \E in \in FetchInputs, store \in BOOLEAN, send \in BOOLEAN :
                    \E s \in {SyncBlock(chk.client, daily_metrics, sync_log, now, tz, in, store)} :
                    \E r \in {send_daily_report(s.rows, s.log, now, tz, send)} :
                        /\ client' = s.client
                        /\ daily_metrics' = s.rows
                        /\ sync_log' = r.log
                        /\ pipeline_runs' = pipeline_runs + 1
                        /\ last' = Obs("wake_check", FALSE, o.call, 1, s.stores,
                                       r.notified, r.raised)

\* wake_fallback_job
WakeFallback ==
    /\ wake_detection
    /\ Due("wake_fallback", {WakeEndTick})
    /\ fired' = fired \cup {"wake_fallback"}
    /\ UNCHANGED <<now, tz, wake_detection, phase, commands>>
    /\ IF has_report_sent_today(sync_log, now)
       THEN /\ last' = Obs("wake_fallback", TRUE, "none", 0, 0, "none", FALSE)
            /\ UNCHANGED <<client, sync_log, daily_metrics, pipeline_runs>>
       ELSE /\ Room(2)
            /\ \E in \in FetchInputs, store \in BOOLEAN, send \in BOOLEAN :
               \E s \in {SyncBlock(client, daily_metrics, sync_log, now, tz, in, store)} :
               \E r \in {send_daily_report(s.rows, s.log, now, tz, send)} :
                   /\ client' = s.client
                   /\ daily_metrics' = s.rows
                   /\ sync_log' = r.log
                   /\ pipeline_runs' = pipeline_runs + 1
                   /\ last' = Obs("wake_fallback", FALSE, "none", 1, s.stores,
                                  r.notified, r.raised)

\* _run_health_checks (the provider login, non-fatal), then
\* _run_startup_backfill over the trailing window, then scheduler.start()
Startup ==
    /\ phase = "startup"
    /\ phase' = "running"
    /\ \E login \in BOOLEAN :
       LET c == ensure_authenticated(client, login).client
           yesterday == date_today(now, tz) - 1
           missing == get_missing_dates(daily_metrics,
                                        yesterday - (BackfillWindow - 1), yesterday)
       IN  \E ins \in [1..Len(missing) -> StartupInputs] :
           \E b \in {backfill_loop(c, daily_metrics, sync_log, now, missing, ins, 1, FALSE)} :
               /\ client' = b.client
               /\ daily_metrics' = b.rows
               /\ sync_log' = b.log
               /\ last' = Obs("startup", FALSE, "none", Len(missing),
                              Len(b.rows) - Len(daily_metrics), "none", FALSE)
    /\ UNCHANGED <<now, tz, wake_detection, fired, pipeline_runs, commands>>

\* sync_yesterday_data_job (trigger daily_sync): the job re-raises
SyncJob ==
    /\ ~wake_detection
    /\ Due("daily_sync", {SyncTick})
    /\ Room(1)
    /\ fired' = fired \cup {"daily_sync"}
    /\ UNCHANGED <<now, tz, wake_detection, phase, pipeline_runs, commands>>
    /\ \E in \in FetchInputs, store \in BOOLEAN :
       \E s \in {SyncBlock(client, daily_metrics, sync_log, now, tz, in, store)} :
           /\ client' = s.client
           /\ daily_metrics' = s.rows
           /\ sync_log' = s.log
           /\ last' = Obs("daily_sync", FALSE, "none", 1, s.stores, "none", s.failed)

\* send_daily_report_job (trigger daily_report)
DailyReport ==
    /\ ~wake_detection
    /\ Due("daily_report", {ReportTick})
    /\ Room(1)
    /\ fired' = fired \cup {"daily_report"}
    /\ UNCHANGED <<now, tz, wake_detection, phase, client, daily_metrics, pipeline_runs, commands>>
    /\ \E send \in BOOLEAN :
       LET r == send_daily_report(daily_metrics, sync_log, now, tz, send)
       IN  /\ sync_log' = r.log
           /\ last' = Obs("daily_report", FALSE, "none", 0, 0, r.notified, r.raised)

\* the tick of the retry trigger: _build_fixed_time_jobs adds the delay to
\* the sync time and wraps at the end of the day
retry_tick == (SyncTick + RetryDelayTicks) % TicksPerDay

\* sync_retry_job (trigger daily_sync_retry)
SyncRetry ==
    /\ ~wake_detection
    /\ Due("daily_sync_retry", {retry_tick})
    /\ fired' = fired \cup {"daily_sync_retry"}
    /\ UNCHANGED <<now, tz, wake_detection, phase, pipeline_runs, commands>>
    /\ IF has_successful_sync_today(sync_log, now)
       THEN /\ last' = Obs("daily_sync_retry", TRUE, "none", 0, 0, "none", FALSE)
            /\ UNCHANGED <<client, sync_log, daily_metrics>>
       ELSE /\ Room(1)
            /\ \E in \in FetchInputs, store \in BOOLEAN :
               \E s \in {SyncBlock(client, daily_metrics, sync_log, now, tz, in, store)} :
                   /\ client' = s.client
                   /\ daily_metrics' = s.rows
                   /\ sync_log' = s.log
                   /\ last' = Obs("daily_sync_retry", FALSE, "none", 1, s.stores,
                                  "none", s.failed)

\* TelegramBot._cmd_sync: sync_callback, then _send_yesterday_report unless
\* the sync raised (explored once per tick)
ManualSync ==
    /\ phase = "running"
    /\ "manual_sync" \notin fired
    /\ commands < MaxCommands
    /\ commands' = commands + 1
    /\ Room(2)
    /\ fired' = fired \cup {"manual_sync"}
    /\ UNCHANGED <<now, tz, wake_detection, phase, pipeline_runs>>
    /\ \E in \in FetchInputs, store \in BOOLEAN, send \in BOOLEAN :
       \E s \in {SyncBlock(client, daily_metrics, sync_log, now, tz, in, store)} :
       \E r \in {send_daily_report(s.rows, s.log, now, tz, send)} :
           /\ client' = s.client
           /\ daily_metrics' = s.rows
           /\ IF s.failed
              THEN /\ sync_log' = s.log
                   /\ last' = Obs("manual_sync", FALSE, "none", 1, 0, "none", FALSE)
              ELSE /\ sync_log' = r.log
                   /\ last' = Obs("manual_sync", FALSE, "none", 1, s.stores,
                                  r.notified, r.raised)

\* TelegramBot._cmd_backfill with backfill_callback: reconcile the missing
\* dates of the last n days (explored once per tick)
Backfill ==
    /\ phase = "running"
    /\ "backfill" \notin fired
    /\ commands < MaxCommands
    /\ commands' = commands + 1
    /\ fired' = fired \cup {"backfill"}
    /\ UNCHANGED <<now, tz, wake_detection, phase, pipeline_runs>>
    /\ \E n \in 1..BackfillWindow :
       LET end == date_today(now, tz) - 1
           start == end - (n - 1)
           missing == get_missing_dates(daily_metrics, start, end)
       IN  /\ Room(Len(missing))
           /\ \E ins \in [1..Len(missing) -> BackfillInputs] :
              \E b \in {backfill_loop(client, daily_metrics, sync_log, now, missing, ins, 1, TRUE)} :
                  /\ client' = b.client
                  /\ daily_metrics' = b.rows
                  /\ sync_log' = b.log
                  /\ last' = Obs("backfill", missing = <<>>, "none", Len(missing),
                                 Len(b.rows) - Len(daily_metrics), "none", FALSE)

Next ==
    \/ Startup
    \/ Tick
    \/ WakeCheck
    \/ WakeFallback
    \/ SyncJob
    \/ DailyReport
    \/ SyncRetry
    \/ ManualSync
    \/ Backfill

Spec == Init /\ [][Next]_vars

\* ---------------------------------------------------------------------
\* The repository on its own: any sequence of calls of its write and read
\* operations on daily_metrics, with any arguments
\* ---------------------------------------------------------------------
Dates == 0..MaxDate

EmptyDict == [k \in {} |-> None]

\* the metrics dicts a caller can pass: any subset of the keys
PartialDicts ==
    { a @@ b @@ c @@ d :
        a \in {EmptyDict, "sleep_hours" :> 7},
        b \in {EmptyDict, "steps" :> 5000, "steps" :> 0, "steps" :> None},
        c \in {EmptyDict, "weight_kg" :> 78},
        d \in {EmptyDict, "garmin_sync_success" :> FALSE} }

Weights == {79}

\* the lengths of the windows of the weekly and the monthly statistics
WeekDays == 7
MonthDays == 30

\* Repository.get_metrics_range: the rows of the inclusive range, ordered
\* by date
RECURSIVE get_metrics_range(_, _, _)
get_metrics_range(rows, start_date, end_date) ==
    IF start_date > end_date THEN <<>>
    ELSE (IF has_row(rows, start_date) THEN <<rows[RowIndex(rows, start_date)]>> ELSE <<>>)
         \o get_metrics_range(rows, start_date + 1, end_date)

\* [r.k for r in rows if r.k is not None]
ColumnValues(rs, k) ==
    LET NotNone(v) == v # None
    IN  SelectSeq([i \in 1..Len(rs) |-> rs[i][k]], NotNone)

\* _avg: round(sum(lst) / len(lst), 2) if lst else None, in hundredths
\* (rounded to the nearest hundredth)
avg(lst) ==
    IF lst = <<>> THEN None
    ELSE (2 * 100 * Sum(lst) + Len(lst)) \div (2 * Len(lst))

\* max / min of the truthy sleep hours of the rows, None without any
best_sleep_hours(rs) ==
    LET hours == {rs[i].sleep_hours : i \in 1..Len(rs)} \ {None, 0}
    IN  IF hours = {} THEN None ELSE CHOOSE h \in hours : \A g \in hours : g <= h

worst_sleep_hours(rs) ==
    LET hours == {rs[i].sleep_hours : i \in 1..Len(rs)} \ {None, 0}
    IN  IF hours = {} THEN None ELSE CHOOSE h \in hours : \A g \in hours : g >= h

\* the statistics of a window in which an empty list of values sums to 0
window_stats_zero_total(rows, start, end_date) ==
    LET stats(rs, sleep_hours, sleep_scores, steps) ==
            IF rs = <<>> THEN EmptyDict
            ELSE [start_date |-> start,
                  end_date |-> end_date,
                  days_with_data |-> Len(rs),
                  sleep_avg_hours |-> avg(sleep_hours),
                  sleep_avg_score |-> IF sleep_scores # <<>> THEN avg(sleep_scores) \div 100
                                                            ELSE None,
                  sleep_best_hours |-> best_sleep_hours(rs),
                  sleep_worst_hours |-> worst_sleep_hours(rs),
                  steps_avg |-> IF steps # <<>> THEN avg(steps) \div 100 ELSE None,
                  steps_total |-> Sum(steps)]
        of(rs) == stats(rs, ColumnValues(rs, "sleep_hours"),
                        ColumnValues(rs, "sleep_score"), ColumnValues(rs, "steps"))
    IN  of(get_metrics_range(rows, start, end_date))

\* the body shared by get_weekly_stats and get_monthly_stats: nothing
\* without a row in the window, else for each metric the average and the
\* total of its non-null values, None when it has none (the monthly
\* statistics leave the score and the best and worst night out; the
\* calories follow the steps)
window_stats(rows, start, end_date) ==
    LET stats(rs, sleep_hours, sleep_scores, steps) ==
            IF rs = <<>> THEN EmptyDict
            ELSE [start_date |-> start,
                  end_date |-> end_date,
                  days_with_data |-> Len(rs),
                  sleep_avg_hours |-> avg(sleep_hours),
                  sleep_avg_score |-> IF sleep_scores # <<>> THEN avg(sleep_scores) \div 100
                                                            ELSE None,
                  sleep_best_hours |-> best_sleep_hours(rs),
                  sleep_worst_hours |-> worst_sleep_hours(rs),
                  steps_avg |-> IF steps # <<>> THEN avg(steps) \div 100 ELSE None,
                  steps_total |-> IF steps # <<>> THEN Sum(steps) ELSE None]
        of(rs) == stats(rs, ColumnValues(rs, "sleep_hours"),
                        ColumnValues(rs, "sleep_score"), ColumnValues(rs, "steps"))
    IN  of(get_metrics_range(rows, start, end_date))

\* Repository.get_weekly_stats
get_weekly_stats(rows, end_date) ==
    window_stats(rows, end_date - (WeekDays - 1), end_date)

\* Repository.get_monthly_stats
get_monthly_stats(rows, end_date) ==
    window_stats(rows, end_date - (MonthDays - 1), end_date)

\* Repository.get_weekly_weight_stats: r.weight_kg is read from every row
\* of the window, which raises AttributeError unless the class maps the
\* column; then the last weight of the window, the last weight of the
\* week before it and their difference
get_weekly_weight_stats(rows, end_date) ==
    LET start == end_date - (WeekDays - 1)
        last_of(lst) == IF lst = <<>> THEN None ELSE lst[Len(lst)]
        delta(current_weight, prev_weight) ==
            IF prev_weight # None THEN current_weight - prev_weight ELSE None
        stats(weights, prev_weights) ==
            IF weights = <<>>
            THEN [raised |-> FALSE, result |-> EmptyDict]
            ELSE [raised |-> FALSE,
                  result |-> [current_weight |-> last_of(weights),
                              prev_weight |-> last_of(prev_weights),
                              delta |-> delta(last_of(weights), last_of(prev_weights)),
                              entries_count |-> Len(weights)]]
        read(rs, prev_rs) ==
            IF rs = <<>>
            THEN [raised |-> FALSE, result |-> EmptyDict]
            ELSE IF "weight_kg" \notin MetricColumns
            THEN [raised |-> TRUE, result |-> EmptyDict]
            ELSE stats(ColumnValues(rs, "weight_kg"), ColumnValues(prev_rs, "weight_kg"))
    IN  read(get_metrics_range(rows, start, end_date),
             get_metrics_range(rows, start - WeekDays, start - 1))

\* the end dates explored for the statistics: the stored dates, and the
\* dates whose week or month leaves the first or every stored date out
EndDates ==
    Dates \cup {MaxDate + k : k \in {WeekDays - 1, WeekDays, MonthDays - 1, MonthDays}}

\* the record of one repository call: the operation, its arguments, whether
\* it raised, what it returned, and the dates whose writes were committed
\* so far
RepoObs(op, day, end_date, metrics, raised, result, written) ==
    [op |-> op, day |-> day, end_date |-> end_date, metrics |-> metrics,
     raised |-> raised, result |-> result, written |-> written]

RepoInit ==
    /\ now = 0
    /\ tz = 0
    /\ wake_detection = FALSE
    /\ phase = "repository"
    /\ client = "none"
    /\ sync_log = <<>>
    /\ daily_metrics = <<>>
    /\ fired = {}
    /\ last = RepoObs("init", None, None, EmptyDict, FALSE, <<>>, {})
    /\ pipeline_runs = 0
    /\ commands = 0

\* one more call, at a later time
RepoCall ==
    /\ commands < MaxCalls
    /\ commands' = commands + 1
    /\ now' = now + 1
    /\ UNCHANGED <<tz, wake_detection, phase, client, sync_log, fired, pipeline_runs>>

\* repo.save_daily_metrics(day, metrics)
SaveDailyMetrics ==
    /\ RepoCall
    /\ \E day \in Dates, metrics \in PartialDicts :
        /\ daily_metrics' = save_daily_metrics(daily_metrics, day, now, metrics)
        /\ last' = RepoObs("save_daily_metrics", day, None, metrics, FALSE, <<>>,
                           last.written \cup {day})

\* repo.save_manual_weight(day, weight_kg)
SaveManualWeight ==
    /\ RepoCall
    /\ \E day \in Dates, weight_kg \in Weights :
        \E r \in {save_manual_weight(daily_metrics, day, now, weight_kg)} :
            /\ daily_metrics' = r.rows
            /\ last' = RepoObs("save_manual_weight", day, None,
                               "weight_kg" :> weight_kg, r.raised, <<>>,
                               IF r.raised THEN last.written
                                           ELSE last.written \cup {day})

\* repo.get_missing_dates(start_date, end_date)
GetMissingDates ==
    /\ RepoCall
    /\ \E start_date \in Dates, end_date \in Dates :
        /\ last' = RepoObs("get_missing_dates", start_date, end_date, EmptyDict, FALSE,
                           get_missing_dates(daily_metrics, start_date, end_date),
                           last.written)
        /\ UNCHANGED daily_metrics

\* repo.get_weekly_stats(end_date)
GetWeeklyStats ==
    /\ RepoCall
    /\ \E end_date \in EndDates :
        /\ last' = RepoObs("get_weekly_stats", end_date - (WeekDays - 1), end_date,
                           EmptyDict, FALSE,
                           get_weekly_stats(daily_metrics, end_date), last.written)
        /\ UNCHANGED daily_metrics

\* repo.get_monthly_stats(end_date)
GetMonthlyStats ==
    /\ RepoCall
    /\ \E end_date \in EndDates :
        /\ last' = RepoObs("get_monthly_stats", end_date - (MonthDays - 1), end_date,
                           EmptyDict, FALSE,
                           get_monthly_stats(daily_metrics, end_date), last.written)
        /\ UNCHANGED daily_metrics

\* repo.get_weekly_weight_stats(end_date)
GetWeeklyWeightStats ==
    /\ RepoCall
    /\ \E end_date \in EndDates :
        \E r \in {get_weekly_weight_stats(daily_metrics, end_date)} :
            /\ last' = RepoObs("get_weekly_weight_stats", end_date - (WeekDays - 1),
                               end_date, EmptyDict, r.raised, r.result, last.written)
            /\ UNCHANGED daily_metrics

RepoNext ==
    \/ GetWeeklyStats
    \/ GetMonthlyStats
    \/ GetWeeklyWeightStats
    \/ SaveDailyMetrics
    \/ SaveManualWeight
    \/ GetMissingDates

RepoSpec == RepoInit /\ [][RepoNext]_vars

\* ---------------------------------------------------------------------
\* Vocabulary of the properties
\* ---------------------------------------------------------------------
\* the log holds an entry of the status written in the UTC day of t
InUtcDay(log, t, status) ==
    \E i \in 1..Len(log) :
        log[i].status = status /\ utc_day(log[i].sync_date) = utc_day(t)

\* this step is an invocation of the trigger or command
Fires(job) == job \notin fired /\ job \in fired'

\* this step leaves the old log in place and appends k entries
Appends(k) ==
    /\ Len(sync_log') = Len(sync_log) + k
    /\ \A i \in 1..Len(sync_log) : sync_log'[i] = sync_log[i]

\* the status of the j-th entry this step appended
NewStatus(j) == sync_log'[Len(sync_log) + j].status

SyncOutcomes == {"success", "partial", "error"}

NotReportSent(e) == e.status # "report_sent"

\* ---------------------------------------------------------------------
\* C1: in wake-detection mode, on a UTC day without a report_sent entry, a
\* wake-check tick that finds sleep data available runs the sync pipeline
\* exactly once and appends exactly one report_sent entry, so that every
\* later wake-check tick of that UTC day returns at its guard.
\* ---------------------------------------------------------------------
C1_WakeTickReportsOnce ==
    [][ (Fires("wake_check") /\ ~InUtcDay(sync_log, now, "report_sent")
            /\ last'.answer = "data")
        => /\ last'.fetches = 1
           /\ Appends(2)
           /\ NewStatus(1) \in SyncOutcomes
           /\ NewStatus(2) = "report_sent"
           /\ has_report_sent_today(sync_log', now') ]_vars

\* ---------------------------------------------------------------------
\* C2: a fallback firing on a UTC day without a report_sent entry runs the
\* sync pipeline exactly once, appends exactly one sync-outcome entry and
\* appends no report_sent entry.
\* ---------------------------------------------------------------------
C2_FallbackAppendsNoReportSent ==
    [][ (Fires("wake_fallback") /\ ~InUtcDay(sync_log, now, "report_sent"))
        => /\ last'.fetches = 1
           /\ Appends(1)
           /\ NewStatus(1) \in SyncOutcomes ]_vars

\* ---------------------------------------------------------------------
\* C3: within one UTC day the wake-check ticks and the fallback together
\* run the sync pipeline at most once.
\* ---------------------------------------------------------------------
C3_OnePipelineRunPerDay == pipeline_runs <= 1

\* ---------------------------------------------------------------------
\* C4: with a report_sent entry in the current UTC day, a wake-check tick
\* and a fallback firing return without querying the provider, without
\* writing a daily record and without appending to the attempt log.
\* ---------------------------------------------------------------------
C4_GuardedTriggersAreNoOps ==
    [][ ((Fires("wake_check") \/ Fires("wake_fallback"))
            /\ InUtcDay(sync_log, now, "report_sent"))
        => /\ last'.skipped
           /\ last'.answer = "none"
           /\ last'.fetches = 0
           /\ last'.stores = 0
           /\ last'.notified = "none"
           /\ client' = client
           /\ daily_metrics' = daily_metrics
           /\ sync_log' = sync_log ]_vars

C4_Witness ==
    /\ last.op = "wake_fallback"
    /\ last.skipped
    /\ InUtcDay(sync_log, now, "report_sent")

\* ---------------------------------------------------------------------
\* C5: without a report today, a wake-check tick polls the provider, and
\* when the availability check returns false (no data, or a failed query)
\* it leaves the daily records and the attempt log unchanged and runs no
\* sync, so the next tick polls again.
\* ---------------------------------------------------------------------
C5_NegativeCheckChangesNothing ==
    [][ (Fires("wake_check") /\ ~InUtcDay(sync_log, now, "report_sent"))
        => /\ last'.answer # "none"
           /\ (last'.answer \in {"empty", "error", "auth_error"}
                => /\ ~last'.raised
                   /\ last'.fetches = 0
                   /\ last'.stores = 0
                   /\ last'.notified = "none"
                   /\ daily_metrics' = daily_metrics
                   /\ sync_log' = sync_log
                   /\ ~has_report_sent_today(sync_log', now')) ]_vars

C5_Witness ==
    /\ last.op = "wake_check"
    /\ last.answer \in {"error", "auth_error"}
    /\ ~last.raised
    /\ now > 0

\* ---------------------------------------------------------------------
\* C6: on a positive availability check whose sync stored the record, the
\* woken path appends the sync-outcome entry (success or partial) first
\* and report_sent immediately after it, nothing in between.
\* ---------------------------------------------------------------------
C6_OutcomeThenReportSent ==
    [][ (Fires("wake_check") /\ last'.answer = "data" /\ last'.stores = 1)
        => /\ Appends(2)
           /\ NewStatus(1) \in {"success", "partial"}
           /\ NewStatus(2) = "report_sent" ]_vars

\* ---------------------------------------------------------------------
\* C7: the retry trigger exists in fixed-time mode only and fires at its
\* one tick of the day; with a success entry in the current UTC day it
\* does nothing, otherwise it runs the sync pipeline exactly once and
\* appends that run's one outcome entry, also when the run fails.
\* ---------------------------------------------------------------------
C7_RetryIsSingleAndGuarded ==
    [][ Fires("daily_sync_retry")
        => /\ ~wake_detection
           /\ local_tod(now, tz) = retry_tick
           /\ IF InUtcDay(sync_log, now, "success")
              THEN /\ last'.fetches = 0
                   /\ last'.stores = 0
                   /\ client' = client
                   /\ daily_metrics' = daily_metrics
                   /\ sync_log' = sync_log
              ELSE /\ last'.fetches = 1
                   /\ Appends(1)
                   /\ NewStatus(1) \in SyncOutcomes
                   /\ (last'.raised <=> NewStatus(1) = "error") ]_vars

C7_Witness ==
    /\ last.op = "daily_sync_retry"
    /\ last.raised
    /\ last.fetches = 1
    /\ \E i \in 1..(Len(sync_log) - 1) :
          sync_log[i].status = "error" /\ utc_day(sync_log[i].sync_date) = utc_day(now)

\* ---------------------------------------------------------------------
\* C8: has_successful_sync_today() is true exactly when the log holds a
\* success entry of the current UTC day; entries of another status and
\* success entries of earlier days never make it true.
\* ---------------------------------------------------------------------
C8_SyncedTodayIffSuccessToday ==
    has_successful_sync_today(sync_log, now) <=> InUtcDay(sync_log, now, "success")

C8_Witness ==
    /\ ~has_successful_sync_today(sync_log, now)
    /\ \E i \in 1..Len(sync_log) :
          sync_log[i].status = "success" /\ utc_day(sync_log[i].sync_date) < utc_day(now)
    /\ \E i \in 1..Len(sync_log) :
          sync_log[i].status # "success" /\ utc_day(sync_log[i].sync_date) = utc_day(now)

\* ---------------------------------------------------------------------
\* C9: has_report_sent_today() is false on an empty log, true once
\* log_report_sent() has run, and true exactly when the log holds a
\* report_sent entry of the current UTC day; a report_sent entry never
\* makes has_successful_sync_today() true.
\* ---------------------------------------------------------------------
C9_ReportGuardIndependentOfSync ==
    /\ (sync_log = <<>> => ~has_report_sent_today(sync_log, now))
    /\ (last.notified # "none" => has_report_sent_today(sync_log, now))
    /\ (has_report_sent_today(sync_log, now) <=> InUtcDay(sync_log, now, "report_sent"))
    /\ (has_successful_sync_today(sync_log, now)
          <=> has_successful_sync_today(SelectSeq(sync_log, NotReportSent), now))

C9_Witness ==
    /\ has_report_sent_today(sync_log, now)
    /\ ~has_successful_sync_today(sync_log, now)
    /\ last.notified = "summary"

\* ---------------------------------------------------------------------
\* C10: the attempt log is append-only: every step of every operation
\* keeps each entry already in the log, at its place and unchanged.
\* ---------------------------------------------------------------------
C10_LogIsAppendOnly ==
    [][ /\ Len(sync_log') >= Len(sync_log)
        /\ \A i \in 1..Len(sync_log) : sync_log'[i] = sync_log[i] ]_vars

C10_Witness ==
    /\ last.op = "backfill"
    /\ last.fetches > 0
    /\ Len(sync_log) >= 3
    /\ \E i \in 1..Len(sync_log) : sync_log[i].sync_date < now

\* ---------------------------------------------------------------------
\* The provider client on its own: any sequence of availability checks,
\* single fetches and runs of the sync block, from a client with or
\* without a session
\* ---------------------------------------------------------------------
\* the cases explored for one run of the sync block: those of the jobs, and
\* each fetch failing alone
PipelineInputs ==
    FetchInputs \cup
    { FetchIn(ScriptError, ScriptData, TRUE, "data"),
      FetchIn(ScriptData, ScriptError, TRUE, "data"),
      FetchIn(ScriptData, ScriptData, TRUE, "error"),
      FetchIn(ScriptData, ScriptAuthLost, FALSE, "data"),
      FetchIn(ScriptError, ScriptError, TRUE, "error") }

NoFetch == [sleep |-> [raised |-> FALSE], activity |-> [raised |-> FALSE],
            health |-> [raised |-> FALSE]]

\* the record of one call of the client: the operation, whether a login
\* would succeed and what the provider answers (single calls), whether the
\* call raised, the value it returned, and for a run of the sync block
\* what each fetch returned and whether the store accepted the write
ClientObs(op, login, answer, raised, returned, fetched, store) ==
    [op |-> op, login |-> login, answer |-> answer, raised |-> raised,
     returned |-> returned, fetched |-> fetched, store |-> store]

ClientInit ==
    /\ now = 0
    /\ tz = 0
    /\ wake_detection = FALSE
    /\ phase = "client"
    /\ client \in {"none", "session"}
    /\ sync_log = <<>>
    /\ daily_metrics = <<>>
    /\ fired = {}
    /\ last = ClientObs("init", FALSE, "none", FALSE, None, NoFetch, FALSE)
    /\ pipeline_runs = 0
    /\ commands = 0

\* one more call
ClientCall ==
    /\ commands < MaxCalls
    /\ commands' = commands + 1
    /\ UNCHANGED <<now, tz, wake_detection, phase, fired, pipeline_runs>>

\* garmin.check_sleep_available(today)
CheckSleepAvailable ==
    /\ ClientCall
    /\ \E o \in [login : BOOLEAN, call : CallOutcomes] :
        \E r \in {check_sleep_available(client, o)} :
            /\ client' = r.client
            /\ last' = ClientObs("check_sleep_available", o.login, o.call, r.raised,
                                 IF r.available THEN 1 ELSE 0, NoFetch, FALSE)
    /\ UNCHANGED <<sync_log, daily_metrics>>

\* one attempt of garmin.get_sleep_data(day) or garmin.get_activity_data(day)
FetchOnce ==
    /\ ClientCall
    /\ \E o \in [login : BOOLEAN, call : CallOutcomes] :
        \E r \in {FetchAttempt(client, o)} :
            /\ client' = r.client
            /\ last' = ClientObs("fetch", o.login, o.call, r.result = "raise",
                                 None, NoFetch, FALSE)
    /\ UNCHANGED <<sync_log, daily_metrics>>

\* garmin.get_sleep_data(day) under its @retry decorator (get_activity_data
\* has the same decorator and the same body up to the provider call)
GetSleepData ==
    /\ ClientCall
    /\ \E script \in RetryScripts \cup {ScriptRateLimited, ScriptRateLimitedAll} :
        \E r \in {get_sleep_data(client, script)} :
            /\ client' = r.client
            /\ last' = ClientObs("get_sleep_data", script[1].login, script[1].call,
                                 r.raised, r.attempts, NoFetch, FALSE)
    /\ UNCHANGED <<sync_log, daily_metrics>>

\* garmin.get_health_data(day)
GetHealthData ==
    /\ ClientCall
    /\ \E login \in BOOLEAN, health \in CallOutcomes :
        \E r \in {get_health_data(client, login, health)} :
            /\ client' = r.client
            /\ last' = ClientObs("get_health_data", login, health, r.raised,
                                 r.resting_heart_rate, NoFetch, FALSE)
    /\ UNCHANGED <<sync_log, daily_metrics>>

\* the sync block of the jobs: get_yesterday_summary, to_metrics_dict,
\* save_daily_metrics, log_sync
RunSync ==
    /\ ClientCall
    /\ \E in \in PipelineInputs, store \in BOOLEAN :
        \E s \in {SyncBlock(client, daily_metrics, sync_log, now, tz, in, store)} :
            /\ client' = s.client
            /\ daily_metrics' = s.rows
            /\ sync_log' = s.log
            /\ last' = ClientObs("sync", in.login, in.health, s.failed,
                                 None, s.fetched, store)

\* the answers explored for the sleep queries of one date
SleepScripts ==
    {ScriptData, ScriptOtherNight, ScriptScoreOnly, ScriptEmpty, ScriptError, ScriptAuthLost}

\* the cases explored for the summary of one date: any pair of answers to
\* the sleep queries of day+1 and of day, with an activity query that
\* returns or raises and a health query that returns
SummaryInputs ==
    { BackfillIn(sleep_next, sleep, activity, login, "data", TRUE) :
        sleep_next \in SleepScripts, sleep \in SleepScripts,
        activity \in {ScriptData, ScriptError}, login \in BOOLEAN }

\* garmin.get_summary_for_date(day)
GetSummaryForDate ==
    /\ ClientCall
    /\ \E day \in Dates, in \in SummaryInputs :
        \E r \in {get_summary_for_date(client, day, in)} :
            /\ client' = r.client
            /\ last' = [day |-> day] @@
                       ClientObs("get_summary_for_date", in.login, in.health, r.raised,
                                 r.summary, r.fetched, FALSE)
    /\ UNCHANGED <<sync_log, daily_metrics>>

\* a day passes between two calls
NextDay ==
    /\ now + TicksPerDay <= MaxTime
    /\ now' = now + TicksPerDay
    /\ last' = ClientObs("next_day", FALSE, "none", FALSE, None, NoFetch, FALSE)
    /\ UNCHANGED <<tz, wake_detection, phase, client, sync_log, daily_metrics,
                   fired, pipeline_runs, commands>>

ClientNext ==
    \/ NextDay
    \/ CheckSleepAvailable
    \/ FetchOnce
    \/ GetSleepData
    \/ GetHealthData
    \/ GetSummaryForDate
    \/ RunSync

ClientSpec == ClientInit /\ [][ClientNext]_vars

\* ---------------------------------------------------------------------
\* The scheduler and its worker threads: the triggers of the fixed-time
\* mode arrive at any time, each started job runs in a thread of the
\* executor and ends some time later, and the process is shut down at
\* any time
\* ---------------------------------------------------------------------
\* add_job(..., max_instances=1, coalesce=True)
MaxInstances == 1

FixedTimeJobs == {"daily_sync", "daily_sync_retry", "daily_report"}

\* the running instances of the job (an instance is <<job, number>>)
Instances(running, job) == Cardinality({i \in running : i[1] = job})

\* a scheduler that starts an instance whatever is running
submit_job_unlimited(state, running, job, n) ==
    IF state = "running" THEN running \cup {<<job, n>>} ELSE running

\* the scheduler meets a due trigger: a running scheduler hands the job to
\* the executor, which starts it unless max_instances instances of it are
\* running (the run is then skipped); a scheduler that was shut down
\* processes no trigger
submit_job(state, running, job, n) ==
    IF state = "running" /\ Instances(running, job) < MaxInstances
    THEN running \cup {<<job, n>>}
    ELSE running

\* scheduler.shutdown(wait=False) returns at once
shutdown_returns_no_wait(running) == TRUE

\* scheduler.shutdown(wait=True) returns when no job is running
shutdown_returns(running) == running = {}

\* the record of one step of the scheduler: what happened, to which job,
\* whether the trigger was skipped, and whether the job ended while the
\* shutdown was waiting for it
SchedObs(op, job, skipped, draining) ==
    [op |-> op, job |-> job, skipped |-> skipped, draining |-> draining]

SchedInit ==
    /\ now = 0
    /\ tz = 0
    /\ wake_detection = FALSE
    /\ phase = "running"
    /\ client = "none"
    /\ sync_log = <<>>
    /\ daily_metrics = <<>>
    /\ fired = {}
    /\ last = SchedObs("init", "none", FALSE, FALSE)
    /\ pipeline_runs = 0
    /\ commands = 0

\* time passes while jobs run
Elapse ==
    /\ phase \in {"running", "stopping"}
    /\ now < MaxTime
    /\ now' = now + 1
    /\ UNCHANGED <<tz, wake_detection, phase, client, sync_log, daily_metrics,
                   fired, last, pipeline_runs, commands>>

\* a trigger comes due (pipeline_runs counts the started instances of the
\* daily sync)
TriggerDue ==
    /\ phase \in {"running", "stopping"}
    /\ commands < MaxCalls
    /\ commands' = commands + 1
    /\ \E job \in FixedTimeJobs :
        \E running \in {submit_job(phase, fired, job, commands + 1)} :
            /\ fired' = running
            /\ pipeline_runs' = IF job = "daily_sync" /\ running # fired
                                THEN pipeline_runs + 1 ELSE pipeline_runs
            /\ last' = SchedObs("trigger", job, running = fired, FALSE)
    /\ UNCHANGED <<now, tz, wake_detection, phase, client, sync_log, daily_metrics>>

\* a running job comes to its end: sync_yesterday_data_job,
\* sync_retry_job or send_daily_report_job
JobEnds ==
    /\ phase \in {"running", "stopping"}
    /\ \E inst \in fired :
        /\ fired' = fired \ {inst}
        /\ last' = SchedObs("end", inst[1], FALSE, phase = "stopping")
        /\ IF inst[1] = "daily_report"
           THEN /\ \E send \in BOOLEAN :
                   \E r \in {send_daily_report(daily_metrics, sync_log, now, tz, send)} :
                       sync_log' = r.log
                /\ UNCHANGED <<client, daily_metrics>>
           ELSE IF inst[1] = "daily_sync_retry" /\ has_successful_sync_today(sync_log, now)
           THEN UNCHANGED <<client, sync_log, daily_metrics>>
           ELSE \E in \in FetchInputs, store \in BOOLEAN :
                \E s \in {SyncBlock(client, daily_metrics, sync_log, now, tz, in, store)} :
                    /\ client' = s.client
                    /\ daily_metrics' = s.rows
                    /\ sync_log' = s.log
    /\ UNCHANGED <<now, tz, wake_detection, phase, pipeline_runs, commands>>

\* _shutdown or the finally of run(): scheduler.shutdown(wait=True) is called
BeginShutdown ==
    /\ phase = "running"
    /\ phase' = "stopping"
    /\ UNCHANGED <<now, tz, wake_detection, client, sync_log, daily_metrics,
                   fired, last, pipeline_runs, commands>>

\* scheduler.shutdown returns and the process exits
ProcessExits ==
    /\ phase = "stopping"
    /\ shutdown_returns(fired)
    /\ phase' = "exited"
    /\ UNCHANGED <<now, tz, wake_detection, client, sync_log, daily_metrics,
                   fired, last, pipeline_runs, commands>>

SchedNext ==
    \/ Elapse
    \/ TriggerDue
    \/ JobEnds
    \/ BeginShutdown
    \/ ProcessExits

SchedSpec == SchedInit /\ [][SchedNext]_vars

\* ---------------------------------------------------------------------
\* Insights (src/utils/insights.py), applied to lists of daily records
\* that carry steps only (no sleep hours, no weight)
\* ---------------------------------------------------------------------
\* _DEFAULT_STEPS_GOAL
DefaultStepsGoal == 10000

\* the thresholds of the streak insights and the length of the two
\* halves compared by the trend insight
LongStreak == 7
ShortStreak == 3
HalfWindow == 7

\* the condition both callers pass to _count_streak
MeetsGoal(row, steps_goal) == row.steps # None /\ row.steps >= steps_goal

\* the streak counted over all the records that meet the condition
RECURSIVE count_streak_anywhere(_, _, _)
count_streak_anywhere(rows, steps_goal, n) ==
    IF n = 0 THEN 0
    ELSE (IF MeetsGoal(rows[n], steps_goal) THEN 1 ELSE 0)
         + count_streak_anywhere(rows, steps_goal, n - 1)

\* _count_streak over rows[1..n], from rows[n] backwards
RECURSIVE count_streak(_, _, _)
count_streak(rows, steps_goal, n) ==
    IF n = 0 THEN 0
    ELSE IF MeetsGoal(rows[n], steps_goal)
         THEN 1 + count_streak(rows, steps_goal, n - 1)
         ELSE 0

\* steps_list = [r.steps for r in rows if r.steps is not None]
steps_list(rows) ==
    LET NotNone(v) == v # None
    IN  SelectSeq([i \in 1..Len(rows) |-> rows[i].steps], NotNone)

\* generate_insights without its streak branch
generate_insights_no_streak(rows, steps_goal) ==
    IF rows = <<>> THEN {}
    ELSE LET insights(steps) ==
                 (IF steps # <<>> /\ Sum(steps) >= steps_goal * Len(steps)
                  THEN {"average_above_goal"} ELSE {})
                 \cup
                 (IF Len(steps) >= 2 * HalfWindow
                     /\ Sum(SubSeq(steps, HalfWindow + 1, Len(steps))) * HalfWindow * 100
                          < Sum(SubSeq(steps, 1, HalfWindow)) * 85 * (Len(steps) - HalfWindow)
                  THEN {"declining"} ELSE {})
         IN  insights(steps_list(rows))

\* generate_insights on records without sleep hours and weight (the sleep
\* and weight sections then emit nothing): the kinds of the insights
\* emitted. The averages are compared exactly:
\*   avg_steps >= steps_goal        as  sum >= goal * len
\*   avg_second < avg_first * 0.85  as  sum2 * 7 * 100 < sum1 * 85 * len2
generate_insights(rows, steps_goal) ==
    IF rows = <<>> THEN {}
    ELSE LET milestones(steps, streak) ==
                 (IF steps # <<>> /\ streak >= LongStreak THEN {"long_streak"}
                  ELSE IF steps # <<>> /\ streak >= ShortStreak THEN {"short_streak"}
                  ELSE {})
                 \cup
                 (IF steps # <<>> /\ Sum(steps) >= steps_goal * Len(steps)
                  THEN {"average_above_goal"} ELSE {})
                 \cup
                 (IF Len(steps) >= 2 * HalfWindow
                     /\ Sum(SubSeq(steps, HalfWindow + 1, Len(steps))) * HalfWindow * 100
                          < Sum(SubSeq(steps, 1, HalfWindow)) * 85 * (Len(steps) - HalfWindow)
                  THEN {"declining"} ELSE {})
         IN  milestones(steps_list(rows), count_streak(rows, steps_goal, Len(rows)))

\* a list of daily records, ordered by date, with the steps given
RowsOf(steps) ==
    [i \in 1..Len(steps) |->
        [date |-> i, steps |-> steps[i], sleep_hours |-> None, weight_kg |-> None]]

\* the lists explored: every list of up to MaxRows records with steps
\* null, below or above the default goal
ShortLists ==
    UNION { [1..n -> {None, 5000, 12000}] : n \in 0..MaxRows }

\* and the fortnights whose second week averages 70% of the first, that
\* week being made of days of 10000 and 20000 steps, or all of 0
Fortnights ==
    { first \o second :
        first \in [1..HalfWindow -> {10000, 20000}],
        second \in [1..HalfWindow -> {7000, 14000}] }

DecliningFortnights ==
    { f \in Fortnights :
        Sum(SubSeq(f, HalfWindow + 1, 2 * HalfWindow)) * 10
            = Sum(SubSeq(f, 1, HalfWindow)) * 7 }
    \cup { [i \in 1..(2 * HalfWindow) |-> 0] }

\* the goals a caller passes: none (the default applies) or the user's
StepsGoals == {DefaultStepsGoal, 6000}

\* the record of one call: the operation, the goal and the result
InsightObs(op, steps_goal, result) ==
    [op |-> op, steps_goal |-> steps_goal, result |-> result]

InsightInit ==
    /\ now = 0
    /\ tz = 0
    /\ wake_detection = FALSE
    /\ phase = "insights"
    /\ client = "none"
    /\ sync_log = <<>>
    /\ \E steps \in ShortLists \cup DecliningFortnights :
          daily_metrics = RowsOf(steps)
    /\ fired = {}
    /\ last = InsightObs("init", None, None)
    /\ pipeline_runs = 0
    /\ commands = 0

\* _count_streak(rows, lambda r: r.steps is not None and r.steps >= steps_goal)
CountStreak ==
    /\ commands = 0
    /\ commands' = 1
    /\ \E steps_goal \in StepsGoals :
        last' = InsightObs("count_streak", steps_goal,
                           count_streak(daily_metrics, steps_goal, Len(daily_metrics)))
    /\ UNCHANGED <<now, tz, wake_detection, phase, client, sync_log, daily_metrics,
                   fired, pipeline_runs>>

\* generate_insights(rows, goals)
GenerateInsights ==
    /\ commands = 0
    /\ commands' = 1
    /\ \E steps_goal \in StepsGoals :
        last' = InsightObs("generate_insights", steps_goal,
                           generate_insights(daily_metrics, steps_goal))
    /\ UNCHANGED <<now, tz, wake_detection, phase, client, sync_log, daily_metrics,
                   fired, pipeline_runs>>

InsightNext ==
    \/ CountStreak
    \/ GenerateInsights

InsightSpec == InsightInit /\ [][InsightNext]_vars

\* ---------------------------------------------------------------------
\* Caloric balance (src/telegram/formatters.py), applied to the calories
\* of one day. eaten_cal is a float: it is counted in tenths of a kcal;
\* the percentage is counted in tenths of a percent.
\* ---------------------------------------------------------------------
Tenths == 10

\* int(eaten_cal) of a non-negative float: the fraction is cut off
int_kcal(eaten_cal) == eaten_cal \div Tenths

\* (None, None)
NoDeficit == [none |-> TRUE, deficit |-> 0, pct |-> 0]

\* round(deficit / total_burned * 100, 1), in tenths of a percent
deficit_pct(deficit, total_burned) ==
    (2 * 100 * Tenths * deficit + total_burned) \div (2 * total_burned)

\* calculate_deficit without the guard on a total expenditure of zero
calculate_deficit_unguarded_total(active_cal, resting_cal, eaten_cal) ==
    IF eaten_cal = None \/ eaten_cal = 0 THEN NoDeficit
    ELSE LET or0(v) == IF Truthy(v) THEN v ELSE 0
             balance(total_burned, deficit) ==
                 [none |-> FALSE, deficit |-> deficit,
                  pct |-> IF total_burned = 0 THEN 0
                          ELSE deficit_pct(deficit, total_burned)]
             burned(total_burned) ==
                 balance(total_burned, total_burned - int_kcal(eaten_cal))
         IN  burned(or0(active_cal) + or0(resting_cal))

\* calculate_deficit(active_cal, resting_cal, eaten_cal)
calculate_deficit(active_cal, resting_cal, eaten_cal) ==
    IF eaten_cal = None \/ eaten_cal = 0 THEN NoDeficit
    ELSE LET or0(v) == IF Truthy(v) THEN v ELSE 0
             balance(total_burned, deficit) ==
                 [none |-> FALSE, deficit |-> deficit,
                  pct |-> deficit_pct(deficit, total_burned)]
             burned(total_burned) ==
                 IF total_burned = 0 THEN NoDeficit
                 ELSE balance(total_burned, total_burned - int_kcal(eaten_cal))
         IN  burned(or0(active_cal) + or0(resting_cal))

\* the calories explored: absent, zero and two values of each expenditure
\* component; eaten absent, zero, below one kcal, whole and fractional
ActiveCalories == {None, 0, 300, 500}
RestingCalories == {None, 0, 1500, 1600}
EatenCalories == {None, 0, 5, 18500, 18509, 20000, 25000}

\* the record of one call: the operation, its arguments and its result
DeficitObs(op, active_cal, resting_cal, eaten_cal, result) ==
    [op |-> op, active_cal |-> active_cal, resting_cal |-> resting_cal,
     eaten_cal |-> eaten_cal, result |-> result]

DeficitInit ==
    /\ now = 0
    /\ tz = 0
    /\ wake_detection = FALSE
    /\ phase = "formatters"
    /\ client = "none"
    /\ sync_log = <<>>
    /\ daily_metrics = <<>>
    /\ fired = {}
    /\ \E active_cal \in ActiveCalories, resting_cal \in RestingCalories,
          eaten_cal \in EatenCalories :
          last = DeficitObs("init", active_cal, resting_cal, eaten_cal, NoDeficit)
    /\ pipeline_runs = 0
    /\ commands = 0

\* calculate_deficit(active, resting, cal if cal > 0 else None)
CalculateDeficit ==
    /\ commands = 0
    /\ commands' = 1
    /\ last' = DeficitObs("calculate_deficit", last.active_cal, last.resting_cal,
                          last.eaten_cal,
                          calculate_deficit(last.active_cal, last.resting_cal,
                                            last.eaten_cal))
    /\ UNCHANGED <<now, tz, wake_detection, phase, client, sync_log, daily_metrics,
                   fired, pipeline_runs>>

DeficitNext ==
    \/ CalculateDeficit

DeficitSpec == DeficitInit /\ [][DeficitNext]_vars

\* ---------------------------------------------------------------------
\* The wake-detection jobs and the /sync command running at the same
\* time: wake_check and wake_fallback are two jobs of the scheduler (each
\* limited to one instance, in threads of its executor) and /sync runs in
\* the thread of the bot. Each runs in steps: it reads its guard, runs the
\* sync block, sends the report; the steps of different threads
\* interleave. `fired` holds the running threads as <<job, step>>.
\* ---------------------------------------------------------------------
OverlapJobs == {"wake_check", "wake_fallback", "manual_sync"}

\* the jobs that start by reading the report guard (_cmd_sync reads none)
GuardedJobs == {"wake_check", "wake_fallback"}

\* the record of one step: what happened in which thread, whether the job
\* returned at its guard, the jobs that passed their guard so far and the
\* jobs that ran the sync block and whose report went out so far
OverlapObs(op, job, skipped, passed, reported) ==
    [op |-> op, job |-> job, skipped |-> skipped, passed |-> passed,
     reported |-> reported]

OverlapInit ==
    /\ now = 0
    /\ tz = 0
    /\ wake_detection = TRUE
    /\ phase = "running"
    /\ client = "none"
    /\ sync_log = <<>>
    /\ daily_metrics = <<>>
    /\ fired = {}
    /\ last = OverlapObs("init", "none", FALSE, {}, {})
    /\ pipeline_runs = 0
    /\ commands = 0

\* a trigger fires or the command arrives: the job starts in its thread
\* unless an instance of it is running
JobStarts ==
    /\ commands < MaxCalls + 1
    /\ commands' = commands + 1
    /\ \E job \in OverlapJobs :
        /\ \A step \in {"guard", "sync", "report"} : <<job, step>> \notin fired
        /\ fired' = fired \cup {<<job, "guard">>}
        /\ last' = OverlapObs("start", job, FALSE, last.passed, last.reported)
    /\ UNCHANGED <<now, tz, wake_detection, phase, client, sync_log, daily_metrics,
                   pipeline_runs>>

\* the job reads its guard: wake_check_job and wake_fallback_job return
\* when has_report_sent_today(); wake_check_job returns as well when
\* check_sleep_available(today) is false; _cmd_sync has no guard
PassesGuard ==
    /\ \E job \in OverlapJobs :
        /\ <<job, "guard">> \in fired
        /\ IF job \in GuardedJobs /\ has_report_sent_today(sync_log, now)
           THEN /\ fired' = fired \ {<<job, "guard">>}
                /\ last' = OverlapObs("guard", job, TRUE, last.passed, last.reported)
                /\ UNCHANGED client
           ELSE IF job = "wake_check"
           THEN \E o \in {Outcome(TRUE, "data"), Outcome(TRUE, "empty"),
                          Outcome(FALSE, "data")} :
                \E chk \in {check_sleep_available(client, o)} :
                    /\ client' = chk.client
                    /\ IF chk.raised \/ ~chk.available
                       THEN /\ fired' = fired \ {<<job, "guard">>}
                            /\ last' = OverlapObs("guard", job, FALSE, last.passed,
                                                  last.reported)
                       ELSE /\ fired' = (fired \ {<<job, "guard">>}) \cup {<<job, "sync">>}
                            /\ last' = OverlapObs("guard", job, FALSE,
                                                  last.passed \cup {job}, last.reported)
           ELSE /\ fired' = (fired \ {<<job, "guard">>}) \cup {<<job, "sync">>}
                /\ last' = OverlapObs("guard", job, FALSE, last.passed \cup {job},
                                      last.reported)
                /\ UNCHANGED client
    /\ UNCHANGED <<now, tz, wake_detection, phase, sync_log, daily_metrics,
                   pipeline_runs, commands>>

\* the job runs the sync block; sync_callback re-raises, and _cmd_sync
\* then returns without a report
RunsPipeline ==
    /\ \E job \in OverlapJobs :
        /\ <<job, "sync">> \in fired
        /\ \E in \in FetchInputs, store \in BOOLEAN :
           \E s \in {SyncBlock(client, daily_metrics, sync_log, now, tz, in, store)} :
               /\ client' = s.client
               /\ daily_metrics' = s.rows
               /\ sync_log' = s.log
               /\ fired' = (fired \ {<<job, "sync">>}) \cup
                           (IF job = "manual_sync" /\ s.failed THEN {}
                            ELSE {<<job, "report">>})
               /\ last' = OverlapObs("sync", job, FALSE, last.passed, last.reported)
    /\ pipeline_runs' = pipeline_runs + 1
    /\ UNCHANGED <<now, tz, wake_detection, phase, commands>>

\* the job sends the report (_send_daily_report, _send_yesterday_report)
\* and ends
SendsReport ==
    /\ \E job \in OverlapJobs :
        /\ <<job, "report">> \in fired
        /\ fired' = fired \ {<<job, "report">>}
        /\ \E send \in BOOLEAN :
           \E r \in {send_daily_report(daily_metrics, sync_log, now, tz, send)} :
               /\ sync_log' = r.log
               /\ last' = OverlapObs("report", job, FALSE, last.passed,
                                     IF r.notified # "none"
                                     THEN last.reported \cup {job}
                                     ELSE last.reported)
    /\ UNCHANGED <<now, tz, wake_detection, phase, client, daily_metrics,
                   pipeline_runs, commands>>

OverlapNext ==
    \/ JobStarts
    \/ PassesGuard
    \/ RunsPipeline
    \/ SendsReport

OverlapSpec == OverlapInit /\ [][OverlapNext]_vars

\* ---------------------------------------------------------------------
\* The triggers of the wake-detection mode (_build_wake_detection_jobs in
\* src/main.py), computed from the configured window and interval. A time
\* of day is <<hour, minute>>.
\* ---------------------------------------------------------------------
MinutesPerHour == 60

\* the minute of the day of a time of day
minute_of_day(time) == time[1] * MinutesPerHour + time[2]

\* CronTrigger(hour=..., minute=...): the times of day at which the
\* trigger fires, every hour of its hour field at every minute of its
\* minute field
CronTrigger(hours, minutes) == {<<h, m>> : h \in hours, m \in minutes}

\* the hour field f"{start_h}-{end_h}" of the wake check
wake_check_hours(config) ==
    LET start_h == config.wake_start_hour
        end_h == IF config.wake_end_minute = 0 THEN config.wake_end_hour - 1
                                               ELSE config.wake_end_hour
    IN  start_h..(IF end_h < start_h THEN start_h ELSE end_h)

\* the minute field f"*/{interval}" if interval < 60 else "0": every
\* minute of the hour that is a multiple of the interval
wake_check_minutes(config) ==
    IF config.wake_check_interval_minutes < MinutesPerHour
    THEN {m \in 0..(MinutesPerHour - 1) : m % config.wake_check_interval_minutes = 0}
    ELSE {0}

\* _build_wake_detection_jobs: the times of day of the two triggers
build_wake_detection_jobs(config) ==
    [wake_check |-> CronTrigger(wake_check_hours(config), wake_check_minutes(config)),
     wake_fallback |-> CronTrigger({config.wake_end_hour}, {config.wake_end_minute})]

\* the configurations explored: WAKE_CHECK_START and WAKE_CHECK_END on
\* the hour and on the half hour, the start before the end, and an
\* interval dividing the hour, of an hour or longer
WakeConfigs ==
    [wake_start_hour : {5, 6}, wake_start_minute : {0, 30},
     wake_end_hour : {7, 11, 12}, wake_end_minute : {0, 30},
     wake_check_interval_minutes : {10, 15, 30, 60, 90}]

\* the record of the scheduler's construction: the configuration and the
\* times of day of the triggers built from it
CronObs(op, config, jobs) == [op |-> op, config |-> config, jobs |-> jobs]

CronInit ==
    /\ now = 0
    /\ tz = 0
    /\ wake_detection = TRUE
    /\ phase = "startup"
    /\ client = "none"
    /\ sync_log = <<>>
    /\ daily_metrics = <<>>
    /\ fired = {}
    /\ \E config \in WakeConfigs :
          last = CronObs("init", config, [wake_check |-> {}, wake_fallback |-> {}])
    /\ pipeline_runs = 0
    /\ commands = 0

\* _build_scheduler in wake-detection mode
BuildWakeDetectionJobs ==
    /\ phase = "startup"
    /\ phase' = "running"
    /\ last' = CronObs("build_wake_detection_jobs", last.config,
                       build_wake_detection_jobs(last.config))
    /\ UNCHANGED <<now, tz, wake_detection, client, sync_log, daily_metrics,
                   fired, pipeline_runs, commands>>

CronNext ==
    \/ BuildWakeDetectionJobs

CronSpec == CronInit /\ [][CronNext]_vars

\* ---------------------------------------------------------------------
\* The two writers of daily_metrics running at the same time: the sync
\* upsert in a thread of the scheduler and the manual weight entry in the
\* thread of the bot, each in its own session. A writer first looks the
\* date up, then writes and commits; the steps of the two interleave.
\* `fired` holds the writers between their two steps.
\* ---------------------------------------------------------------------
Writers == {"save_daily_metrics", "save_manual_weight"}

\* session.add(row); session.commit(): date is declared unique=True, so
\* the INSERT of a date that has a record by now fails (IntegrityError)
\* and the session rolls back
commit_insert(rows, day, t, metrics) ==
    IF has_row(rows, day)
    THEN [rows |-> rows, raised |-> TRUE]
    ELSE [rows |-> Append(rows, NewRow(rows, day, t, metrics)), raised |-> FALSE]

\* the write of save_daily_metrics after its lookup returned the row
\* numbered existing (0: none)
write_daily_metrics(rows, existing, day, t, metrics) ==
    IF existing # 0
    THEN [rows |-> [rows EXCEPT ![existing] = UpdatedRow(rows[existing], t, metrics)],
          raised |-> FALSE]
    ELSE commit_insert(rows, day, t, metrics)

\* the write of save_manual_weight after its lookup: see save_manual_weight
write_manual_weight(rows, existing, day, t, metrics) ==
    IF existing # 0
    THEN [rows |-> IF "weight_kg" \in MetricColumns
                   THEN [rows EXCEPT ![existing].weight_kg = metrics.weight_kg]
                   ELSE rows,
          raised |-> FALSE]
    ELSE IF "weight_kg" \notin MetricColumns
         THEN [rows |-> rows, raised |-> TRUE]
         ELSE commit_insert(rows, day, t, metrics)

\* the dicts a sync passes: any subset of the keys but the weight
SyncDicts == {m \in PartialDicts : "weight_kg" \notin DOMAIN m}

\* the dict that stands for the arguments of save_manual_weight
WeightDicts == {("weight_kg" :> w) @@ ("garmin_sync_success" :> FALSE) : w \in Weights}

\* the record of one step: what happened, whether two writers had both
\* found no record of one date before either wrote, and the writes that
\* ended, each with its date, its values and whether it raised
WriterObs(op, raced, done) == [op |-> op, raced |-> raced, done |-> done]

WriterInit ==
    /\ now = 0
    /\ tz = 0
    /\ wake_detection = FALSE
    /\ phase = "writers"
    /\ client = "none"
    /\ sync_log = <<>>
    /\ daily_metrics = <<>>
    /\ fired = {}
    /\ last = WriterObs("init", FALSE, {})
    /\ pipeline_runs = 0
    /\ commands = 0

\* session.query(DailyMetrics).filter_by(date=day).first()
WriterReads ==
    /\ commands < MaxCalls
    /\ commands' = commands + 1
    /\ \E writer \in Writers, day \in Dates :
       \E metrics \in (IF writer = "save_daily_metrics" THEN SyncDicts ELSE WeightDicts) :
       \E existing \in {RowIndex(daily_metrics, day)} :
           /\ \A w \in fired \cup last.done : w.writer # writer
           /\ fired' = fired \cup {[writer |-> writer, day |-> day,
                                    metrics |-> metrics, existing |-> existing]}
           /\ last' = WriterObs("read",
                                last.raced \/ (existing = 0 /\ \E w \in fired :
                                                  w.day = day /\ w.existing = 0),
                                last.done)
    /\ UNCHANGED <<now, tz, wake_detection, phase, client, sync_log, daily_metrics,
                   pipeline_runs>>

\* the writer writes and its session commits, or rolls back and raises
WriterCommits ==
    /\ \E w \in fired :
       \E r \in {IF w.writer = "save_daily_metrics"
                 THEN write_daily_metrics(daily_metrics, w.existing, w.day, now, w.metrics)
                 ELSE write_manual_weight(daily_metrics, w.existing, w.day, now, w.metrics)} :
           /\ fired' = fired \ {w}
           /\ daily_metrics' = r.rows
           /\ last' = WriterObs("commit", last.raced,
                                last.done \cup {[writer |-> w.writer, day |-> w.day,
                                                 metrics |-> w.metrics,
                                                 raised |-> r.raised]})
    /\ now' = now + 1
    /\ UNCHANGED <<tz, wake_detection, phase, client, sync_log, pipeline_runs, commands>>

WriterNext ==
    \/ WriterReads
    \/ WriterCommits

WriterSpec == WriterInit /\ [][WriterNext]_vars

\* ---------------------------------------------------------------------
\* get_yesterday_summary on its own, called at any time of any day, in
\* any zone, from a client with or without a session
\* ---------------------------------------------------------------------
\* the record of one call: the provider's answers, whether the call
\* raised, the date each query was made for, what each query returned and
\* the summary
SummaryObs(op, in, raised, asked, fetched, summary) ==
    [op |-> op, in |-> in, raised |-> raised, asked |-> asked,
     fetched |-> fetched, summary |-> summary]

SummaryInit ==
    /\ now \in 0..MaxTime
    /\ tz \in TzOffsets
    /\ wake_detection = FALSE
    /\ phase = "client"
    /\ client \in {"none", "session"}
    /\ sync_log = <<>>
    /\ daily_metrics = <<>>
    /\ fired = {}
    /\ last = SummaryObs("init", FetchIn(ScriptData, ScriptData, TRUE, "data"), FALSE,
                         [sleep |-> None, activity |-> None, health |-> None],
                         NoFetch, [date |-> None])
    /\ pipeline_runs = 0
    /\ commands = 0

\* garmin.get_yesterday_summary()
GetYesterdaySummary ==
    /\ commands < MaxCalls
    /\ commands' = commands + 1
    /\ \E in \in PipelineInputs :
        \E r \in {get_yesterday_summary(client, now, tz, in)} :
            /\ client' = r.client
            /\ last' = SummaryObs("get_yesterday_summary", in, r.raised, r.asked,
                                  r.fetched, r.summary)
    /\ UNCHANGED <<now, tz, wake_detection, phase, sync_log, daily_metrics, fired,
                   pipeline_runs>>

SummaryNext ==
    \/ GetYesterdaySummary

SummarySpec == SummaryInit /\ [][SummaryNext]_vars

\* ---------------------------------------------------------------------
\* Properties of the repository (specification RepoSpec)
\* ---------------------------------------------------------------------
\* the store holds a record of the date
HasRecord(rows, day) == \E i \in 1..Len(rows) : rows[i].date = day

\* a record of the date
RecordOf(rows, day) == rows[CHOOSE i \in 1..Len(rows) : rows[i].date = day]

\* this step is a call of the repository operation
IsCall(op) == commands' = commands + 1 /\ last'.op = op

\* the fields of a daily record a metrics dict can name
NullableFields == {"sleep_hours", "sleep_score", "steps", "resting_heart_rate", "weight_kg"}
RecordFields == NullableFields \cup {"garmin_sync_success"}

\* C11: a save_daily_metrics call leaves in the record of its date every
\* field it names with the value it gives, leaves every field it does not
\* name as it was when the record existed and null when it creates the
\* record; so after two calls on a date with disjoint field sets the
\* record holds the values of both.
C11_DisjointUpsertsUnion ==
    [][IsCall("save_daily_metrics") =>
        LET day == last'.day
            named == DOMAIN last'.metrics
            new == RecordOf(daily_metrics', day)
        IN  /\ HasRecord(daily_metrics', day)
            /\ \A k \in named : new[k] = last'.metrics[k]
            /\ IF HasRecord(daily_metrics, day)
               THEN \A k \in RecordFields \ named : new[k] = RecordOf(daily_metrics, day)[k]
               ELSE \A k \in NullableFields \ named : new[k] = None
            /\ (/\ last.op = "save_daily_metrics"
                /\ last.day = day
                /\ DOMAIN last.metrics \cap named = {})
               => \A k \in DOMAIN last.metrics : new[k] = last.metrics[k]
    ]_vars

\* C12: after any sequence of save_daily_metrics and save_manual_weight
\* calls no two records have the same date, and there are as many records
\* as distinct dates with a committed write.
C12_OneRecordPerDate ==
    /\ \A i, j \in 1..Len(daily_metrics) :
          daily_metrics[i].date = daily_metrics[j].date => i = j
    /\ Len(daily_metrics) = Cardinality(last.written)

\* two writes went to one date, the second a manual weight, and left one record
C12_Witness ==
    /\ commands = 2
    /\ last.op = "save_manual_weight"
    /\ ~last.raised
    /\ Len(daily_metrics) = 1

\* C13: save_manual_weight(D, w) leaves a record of D whose weight is w;
\* when D had a record every other field of it is unchanged, and when it
\* had none the new record has the sync-success flag false and every other
\* field null.
C13_ManualWeightSetsOnlyWeight ==
    [][IsCall("save_manual_weight") =>
        LET day == last'.day
            new == RecordOf(daily_metrics', day)
        IN  /\ HasRecord(daily_metrics', day)
            /\ new.weight_kg = last'.metrics.weight_kg
            /\ IF HasRecord(daily_metrics, day)
               THEN \A k \in (DOMAIN new) \ {"weight_kg"} :
                        new[k] = RecordOf(daily_metrics, day)[k]
               ELSE /\ new.garmin_sync_success = FALSE
                    /\ \A k \in NullableFields \ {"weight_kg"} : new[k] = None
    ]_vars

\* C14: get_missing_dates(start, end) returns in ascending order exactly
\* the dates of start..end without a record: nothing for a fully populated
\* range, the whole range for an empty store.
C14_MissingDatesExact ==
    last.op = "get_missing_dates" =>
        LET r == last.result
            range == last.day..last.end_date
        IN  /\ \A i \in 1..(Len(r) - 1) : r[i] < r[i + 1]
            /\ {r[i] : i \in 1..Len(r)} = {d \in range : ~HasRecord(daily_metrics, d)}
            /\ (\A d \in range : HasRecord(daily_metrics, d)) => r = <<>>
            /\ daily_metrics = <<>> => Len(r) = Cardinality(range)

\* a range of several dates, some stored and one missing
C14_Witness ==
    /\ last.op = "get_missing_dates"
    /\ last.end_date > last.day
    /\ daily_metrics # <<>>
    /\ Len(last.result) = 1

\* ---------------------------------------------------------------------
\* Properties of the reconcile passes and of the error handling
\* (specification Spec)
\* ---------------------------------------------------------------------
\* the number of entries of the status among those this step appended
NewEntries(status) ==
    Cardinality({j \in 1..(Len(sync_log') - Len(sync_log)) : NewStatus(j) = status})

\* this step is the startup pass
StartupStep == phase = "startup" /\ phase' = "running"

\* C15: a reconcile pass, at startup or on demand, goes through all its
\* missing dates whatever fails, and appends one entry per date: success
\* for each date it stored, error for each date that failed.
C15_ReconcileLogsEveryDate ==
    [][(StartupStep \/ Fires("backfill")) =>
        /\ Appends(last'.fetches)
        /\ NewEntries("success") = last'.stores
        /\ NewEntries("error") = last'.fetches - last'.stores
    ]_vars

\* the triggers the scheduler fires
ScheduledJobs == {"daily_sync", "daily_sync_retry", "wake_check", "wake_fallback"}

\* this step is a run of the trigger whose sync pipeline raised
PipelineRaised(job) == Fires(job) /\ last'.fetches = 1 /\ last'.stores = 0

\* C16 as stated: an exception of the sync pipeline of a scheduled trigger
\* appends exactly one error entry and the job does not end by raising.
C16_PipelineErrorStaysInJob ==
    [][\A job \in ScheduledJobs :
        PipelineRaised(job) => NewEntries("error") = 1 /\ ~last'.raised
    ]_vars

\* C16 as amended: an exception of the sync pipeline of a scheduled trigger
\* appends exactly one error entry, first of the entries of the run, and
\* leaves the scheduler running; the daily sync and the retry append
\* nothing else and re-raise it to the scheduler, the wake check and the
\* fallback swallow it and go on to the report, so that they raise only
\* when the sending of a stored record fails.
C16_PipelineErrorLoggedOnce ==
    [][\A job \in ScheduledJobs :
        PipelineRaised(job) =>
            /\ NewEntries("error") = 1
            /\ NewStatus(1) = "error"
            /\ phase' = "running"
            /\ job \in {"daily_sync", "daily_sync_retry"} => Appends(1) /\ last'.raised
            /\ job \in {"wake_check", "wake_fallback"} =>
                  (last'.raised => HasRecord(daily_metrics', date_today(now, tz) - 1))
    ]_vars

\* the retry ran and stored the record after the daily sync of the same
\* day had raised and logged its error
C16_Witness ==
    /\ last.op = "daily_sync_retry"
    /\ last.stores = 1
    /\ commands = 0
    /\ Len(sync_log) >= 2
    /\ sync_log[Len(sync_log) - 1].status = "error"

\* ---------------------------------------------------------------------
\* Properties of the provider client and of the sync block
\* (specification ClientSpec)
\* ---------------------------------------------------------------------
\* the fetch calls of the run of the sync block of this step that returned
Succeeded ==
    {call \in {"sleep", "activity", "health"} : ~last'.fetched[call].raised}

\* the date the sync block stores under
Yesterday == date_today(now, tz) - 1

\* C17: a run of the sync block in which some but not all of the three
\* fetch calls succeeded, and whose write the store accepts, stores the
\* record and appends one entry, of status partial.
C17_SomeFetchesFailedLogsPartial ==
    [][(IsCall("sync") /\ last'.store /\ Succeeded # {}
            /\ Succeeded # {"sleep", "activity", "health"}) =>
        /\ HasRecord(daily_metrics', Yesterday)
        /\ Appends(1)
        /\ NewStatus(1) = "partial"
    ]_vars

\* C18: in a run of the sync block in which a fetch call failed and whose
\* write the store accepts, the record of yesterday is stored and holds
\* what each of the calls that succeeded returned.
C18_FetchesFailIndependently ==
    [][(IsCall("sync") /\ last'.store) =>
        LET f == last'.fetched
            row == RecordOf(daily_metrics', Yesterday)
        IN  /\ HasRecord(daily_metrics', Yesterday)
            /\ ~f.sleep.raised =>
                  /\ row.sleep_hours = f.sleep.sleep.hours
                  /\ row.sleep_score = f.sleep.sleep.score
            /\ ~f.activity.raised => row.steps = f.activity.steps
            /\ ~f.health.raised =>
                  row.resting_heart_rate = f.health.resting_heart_rate
    ]_vars

\* C19: check_sleep_available never raises, and answers false whenever
\* the provider did not return sleep data: no data yet, a provider error,
\* an authentication error, or a session that cannot be established.
C19_AvailabilityCheckNeverRaises ==
    [][IsCall("check_sleep_available") =>
        /\ ~last'.raised
        /\ (last'.answer # "data" \/ (client = "none" /\ ~last'.login))
              => last'.returned = 0
    ]_vars

\* C20: after a provider call answered with an authentication error the
\* client holds no session (the cached client is cleared together with the
\* persisted token), so that the next call has to log in again.
C20_AuthErrorDiscardsSession ==
    [][(\E op \in {"check_sleep_available", "fetch", "get_health_data"} : IsCall(op))
            /\ last'.answer = "auth_error"
            /\ (client = "session" \/ last'.login)
        => client' = "none"
    ]_vars

\* C21: a fetch whose first attempt the provider answers with its
\* rate-limit error makes no further attempt.
C21_RateLimitedFetchNotRetried ==
    [][(IsCall("get_sleep_data") /\ last'.answer = "rate_limit") =>
        last'.returned = 1
    ]_vars

WakeJobs == {"wake_check", "wake_fallback"}

GaveDuration(q) == q.called /\ ~q.got.raised /\ q.got.sleep.hours # None

\* C24: a summary returned by get_summary_for_date(D) is dated D; its
\* sleep is what the query of D+1 returned when that has a duration,
\* otherwise (the query of D+1 returned no duration, or raised) what the
\* query of D returned when that has a duration, otherwise empty; the
\* activity and the health queries are made for D and the summary carries
\* the steps the activity query returned.
C24_SleepOfNextDayElseSameDay ==
    [][(IsCall("get_summary_for_date") /\ ~last'.raised) =>
        LET D == last'.day
            f == last'.fetched
            summary == last'.returned
        IN  /\ summary.date = D
            /\ f.sleep_next.called /\ f.sleep_next.day = D + 1
            /\ f.sleep.day = D
            /\ IF GaveDuration(f.sleep_next)
               THEN ~f.sleep.called /\ summary.sleep = f.sleep_next.got.sleep
               ELSE /\ f.sleep.called
                    /\ summary.sleep = IF GaveDuration(f.sleep) THEN f.sleep.got.sleep
                                                               ELSE EmptySleep
            /\ f.activity.called /\ f.activity.day = D
            /\ f.health.called /\ f.health.day = D
            /\ ~f.activity.got.raised => summary.steps = f.activity.got.steps
    ]_vars

\* the query of D+1 raised and the sleep was taken from the query of D
C24_Witness ==
    /\ last.op = "get_summary_for_date"
    /\ ~last.raised
    /\ last.fetched.sleep_next.got.raised
    /\ GaveDuration(last.fetched.sleep)
    /\ last.returned.sleep = ProviderOtherNight

\* ---------------------------------------------------------------------
\* Properties of the scheduler (specification SchedSpec)
\* ---------------------------------------------------------------------
\* the sync-outcome entries of the log
SyncEntries(log) == {i \in 1..Len(log) : log[i].status \in SyncOutcomes}

\* this step is the end of a running instance of the job
Ends(job) == \E inst \in fired : inst \notin fired' /\ inst[1] = job

StepsOf(rows) == [i \in 1..Len(rows) |-> rows[i].steps]

\* the example of the specification: goal 10000, the streak is 3
ExampleSteps == <<12000, 12000, 5000, 12000, 12000, 12000>>

\* C27: _count_streak returns the k for which the last k records all
\* reach the goal and the record before them, if there is one, has null
\* steps or steps below the goal; on the example it returns 3.
C27_StreakIsTrailingRun ==
    last.op = "count_streak" =>
        LET rows == daily_metrics
            n == Len(rows)
            k == last.result
        IN  /\ k \in 0..n
            /\ \A i \in (n - k + 1)..n :
                  rows[i].steps # None /\ rows[i].steps >= last.steps_goal
            /\ k < n => (rows[n - k].steps = None \/ rows[n - k].steps < last.steps_goal)
            /\ (StepsOf(rows) = ExampleSteps /\ last.steps_goal = DefaultStepsGoal) => k = 3

\* the streak of the example was counted
C27_Witness ==
    /\ last.op = "count_streak"
    /\ StepsOf(daily_metrics) = ExampleSteps
    /\ last.steps_goal = DefaultStepsGoal
    /\ last.result = 3

\* the records are a fortnight of steps whose second week averages 70% of
\* the first
IsDecliningFortnight(rows) ==
    /\ Len(rows) = 2 * HalfWindow
    /\ \A i \in 1..Len(rows) : rows[i].steps # None
    /\ Sum(SubSeq(StepsOf(rows), HalfWindow + 1, 2 * HalfWindow)) * 10
          = Sum(SubSeq(StepsOf(rows), 1, HalfWindow)) * 7

StreakInsights == {"long_streak", "short_streak"}

\* C28 as stated: on such a fortnight generate_insights emits the
\* declining-activity insight and no streak insight.
C28_DecliningAndNoStreak ==
    (last.op = "generate_insights" /\ IsDecliningFortnight(daily_metrics)) =>
        /\ "declining" \in last.result
        /\ last.result \cap StreakInsights = {}

\* C28 as amended: on such a fortnight with a positive first-week average
\* generate_insights emits the declining-activity insight; it emits a
\* streak insight exactly when the last three records or more all reach
\* the steps goal.
C28_DecliningWhateverTheStreak ==
    (last.op = "generate_insights" /\ IsDecliningFortnight(daily_metrics)
        /\ Sum(SubSeq(StepsOf(daily_metrics), 1, HalfWindow)) > 0) =>
        /\ "declining" \in last.result
        /\ (last.result \cap StreakInsights # {}) <=>
              (\A i \in (2 * HalfWindow - 2)..(2 * HalfWindow) :
                  daily_metrics[i].steps >= last.steps_goal)

\* a declining fortnight that ends on three days above the goal
C28_Witness ==
    /\ last.op = "generate_insights"
    /\ IsDecliningFortnight(daily_metrics)
    /\ last.steps_goal = DefaultStepsGoal
    /\ last.result = {"declining", "short_streak", "average_above_goal"}

\* ---------------------------------------------------------------------
\* Properties of the statistics (specification RepoSpec)
\* ---------------------------------------------------------------------
\* the stored records of the inclusive range
InWindow(rows, start_date, end_date) ==
    {i \in 1..Len(rows) : rows[i].date >= start_date /\ rows[i].date <= end_date}

\* the metric has no value in the records
AllNull(rows, records, k) == \A i \in records : rows[i][k] = None

\* C29: get_weekly_stats and get_monthly_stats return the empty result
\* when the window has no record; otherwise the result is not empty and
\* the average and the total of a metric are null exactly when all its
\* values in the window are null.
C29_NoDataIsNullNotZero ==
    last.op \in {"get_weekly_stats", "get_monthly_stats"} =>
        LET window == InWindow(daily_metrics, last.day, last.end_date)
            stats == last.result
        IN  IF window = {}
            THEN stats = EmptyDict
            ELSE /\ stats # EmptyDict
                 /\ stats.days_with_data = Cardinality(window)
                 /\ (stats.steps_avg = None) <=> AllNull(daily_metrics, window, "steps")
                 /\ (stats.steps_total = None) <=> AllNull(daily_metrics, window, "steps")
                 /\ (stats.sleep_avg_hours = None)
                        <=> AllNull(daily_metrics, window, "sleep_hours")
                 /\ (stats.sleep_avg_score = None)
                        <=> AllNull(daily_metrics, window, "sleep_score")

\* the week holds a record with sleep hours and without steps
C29_Witness ==
    /\ last.op = "get_weekly_stats"
    /\ last.result # EmptyDict
    /\ last.result.days_with_data = 1
    /\ last.result.steps_total = None
    /\ last.result.sleep_avg_hours # None

\* the weights of the records of the range, by date
WeightDates(rows, start_date, end_date) ==
    {rows[i].date : i \in {j \in InWindow(rows, start_date, end_date) :
                                rows[j].weight_kg # None}}

\* the weight of the latest of the dates
LastWeight(rows, dates) ==
    RecordOf(rows, CHOOSE d \in dates : \A e \in dates : e <= d).weight_kg

\* C30: get_weekly_weight_stats(end) returns the empty result when the
\* 7 days ending on end have no weight; otherwise its delta is the last
\* weight of those days minus the last weight of the 7 days before them,
\* and null when these have no weight.
C30_WeightDeltaAgainstPreviousWeek ==
    [][IsCall("get_weekly_weight_stats") =>
        LET current == WeightDates(daily_metrics, last'.day, last'.end_date)
            previous == WeightDates(daily_metrics, last'.day - WeekDays, last'.day - 1)
        IN  /\ ~last'.raised
            /\ IF current = {}
               THEN last'.result = EmptyDict
               ELSE /\ last'.result # EmptyDict
                    /\ last'.result.delta =
                          IF previous = {} THEN None
                          ELSE LastWeight(daily_metrics, current)
                               - LastWeight(daily_metrics, previous)
    ]_vars
\* ---------------------------------------------------------------------
\* Properties of the caloric balance (specification DeficitSpec)
\* ---------------------------------------------------------------------
\* an expenditure component, a missing one counted as 0
Counted(v) == IF v = None THEN 0 ELSE v

\* the total expenditure of the call observed
Burned == Counted(last.active_cal) + Counted(last.resting_cal)

\* the call observed has nothing to compute a balance from
NoBalance == last.eaten_cal \in {None, 0} \/ Burned = 0

C32_OverlapReportsOnce ==
    /\ Cardinality(last.passed) <= 1
    /\ Cardinality(last.reported) <= 1

\* ---------------------------------------------------------------------
\* Properties of the guards across midnight (specification Spec)
\* ---------------------------------------------------------------------
\* the log holds an entry of the status written at the instant
EntryAt(log, t, status) ==
    \E i \in 1..Len(log) : log[i].status = status /\ log[i].sync_date = t

\* the log holds an entry of the status written by a wake-check tick of
\* the local day of t: written inside the check window of that local
\* date, no user command having been handled
WakeTickEntry(log, t, z, status) ==
    \E i \in 1..Len(log) :
        /\ log[i].status = status
        /\ date_today(log[i].sync_date, z) = date_today(t, z)
        /\ local_tod(log[i].sync_date, z) \in WakeStartTick..(WakeEndTick - 1)
        /\ commands = 0

\* C33: if the primary daily sync appended a success entry, the retry
\* trigger that fires sync_retry_delay_minutes later is a no-op, for every
\* sync time, retry delay and time zone, also when UTC midnight or local
\* midnight falls between the two. (Without a user command a success
\* entry written at the sync time is the primary sync's.)
C33_RetryAfterPrimarySuccessIsNoOp ==
    [][ (/\ Fires("daily_sync_retry")
         /\ commands = 0
         /\ now >= RetryDelayTicks
         /\ local_tod(now - RetryDelayTicks, tz) = SyncTick
         /\ EntryAt(sync_log, now - RetryDelayTicks, "success"))
        => /\ last'.skipped
           /\ last'.fetches = 0
           /\ client' = client
           /\ daily_metrics' = daily_metrics
           /\ sync_log' = sync_log ]_vars

\* C34: for every time zone and check window, a report_sent entry appended
\* by a wake-check tick suppresses all later wake-check ticks and the
\* fallback of the same local-time check window, also when that window
\* spans UTC midnight.
C34_ReportSentSuppressesLocalWindow ==
    [][ ((Fires("wake_check") \/ Fires("wake_fallback"))
            /\ WakeTickEntry(sync_log, now, tz, "report_sent"))
        => /\ last'.skipped
           /\ last'.answer = "none"
           /\ last'.fetches = 0
           /\ client' = client
           /\ daily_metrics' = daily_metrics
           /\ sync_log' = sync_log ]_vars

\* ---------------------------------------------------------------------
\* Properties of the wake-detection triggers (specification CronSpec)
\* ---------------------------------------------------------------------
\* C35: every scheduled wake-check tick falls inside the configured
\* window: none fires before WAKE_CHECK_START (its minute part included)
\* and none fires at or after the fallback time WAKE_CHECK_END of the same
\* day, so the fallback is the last wake-detection trigger of the day.
C35_TicksInsideWindow ==
    last.op = "build_wake_detection_jobs" =>
        \A tick \in last.jobs.wake_check :
            /\ minute_of_day(tick) >=
                   minute_of_day(<<last.config.wake_start_hour,
                                   last.config.wake_start_minute>>)
            /\ \A fallback \in last.jobs.wake_fallback :
                   minute_of_day(tick) < minute_of_day(fallback)

\* ---------------------------------------------------------------------
\* Properties of repeated syncs of one date (specification Spec)
\* ---------------------------------------------------------------------
\* the metrics a sync writes
SyncedMetrics == {"sleep_hours", "sleep_score", "steps", "resting_heart_rate"}

\* C36: once the record of a date holds a non-null synced metric, a later
\* run of the sync pipeline for that date (retry, fallback, manual sync or
\* another tick) whose fetch returns no value for the metric does not
\* overwrite it with null. (Records are never deleted or reordered, so the
\* record of a date keeps its position.)
C36_SyncKeepsStoredMetrics ==
    [][ \A i \in 1..Len(daily_metrics) :
          /\ i <= Len(daily_metrics')
          /\ daily_metrics'[i].date = daily_metrics[i].date
          /\ \A k \in SyncedMetrics :
                daily_metrics[i][k] # None => daily_metrics'[i][k] # None ]_vars

\* ---------------------------------------------------------------------
\* Properties of the reconcile pass (specification Spec)
\* ---------------------------------------------------------------------
\* the range of a reconcile pass over the last n days
PassStart(n) == date_today(now, tz) - 1 - (n - 1)
PassEnd == date_today(now, tz) - 1

\* this step is a reconcile pass in which no date failed: it appended one
\* success entry per date it went through
CleanPass ==
    /\ StartupStep \/ Fires("backfill")
    /\ NewEntries("success") = last'.fetches

\* a stored record without any value (the provider had no data at all)
EmptyRecord(row) == \A k \in SyncedMetrics : row[k] = None

\* C37: after a reconcile pass over a range in which no date failed,
\* get_missing_dates over that range is empty, also for dates where the
\* provider returned no data at all, so an immediate second pass fetches
\* nothing and appends nothing to the attempt log. (The startup pass goes
\* over the whole window; an on-demand pass over the last n days, n being
\* any number for which the pass went through all the missing dates.)
C37_CleanPassLeavesNothingMissing ==
    [][ /\ CleanPass =>
            \A n \in 1..BackfillWindow :
                ((StartupStep => n = BackfillWindow)
                 /\ Len(get_missing_dates(daily_metrics, PassStart(n), PassEnd))
                        = last'.fetches)
                => get_missing_dates(daily_metrics', PassStart(n), PassEnd) = <<>>
        /\ (Fires("backfill")
            /\ \A n \in 1..BackfillWindow :
                  get_missing_dates(daily_metrics, PassStart(n), PassEnd) = <<>>)
           => /\ last'.skipped
              /\ last'.fetches = 0
              /\ client' = client
              /\ daily_metrics' = daily_metrics
              /\ sync_log' = sync_log ]_vars

\* a second pass found nothing missing right after a startup pass that
\* stored a record for a date without any data
C37_Witness ==
    /\ last.op = "backfill"
    /\ last.skipped
    /\ last.fetches = 0
    /\ now = 0
    /\ \E i \in 1..Len(daily_metrics) :
          /\ daily_metrics[i].date = PassEnd
          /\ EmptyRecord(daily_metrics[i])
    /\ Len(sync_log) = 1
    /\ sync_log[1].status = "success"

\* ---------------------------------------------------------------------
\* Properties of the two writers of a date (specification RepoSpec)
\* ---------------------------------------------------------------------
\* the two calls are a sync upsert (its dict names no weight) and a manual
\* weight entry for the same date
SyncAndWeight(sync, manual) ==
    /\ sync.op = "save_daily_metrics"
    /\ "weight_kg" \notin DOMAIN sync.metrics
    /\ manual.op = "save_manual_weight"
    /\ sync.day = manual.day

\* the record of the date holds the weight entered and the synced metrics
HoldsBoth(rows, sync, manual) ==
    /\ HasRecord(rows, sync.day)
    /\ RecordOf(rows, sync.day).weight_kg = manual.metrics.weight_kg
    /\ \A k \in DOMAIN sync.metrics \cap NullableFields :
          RecordOf(rows, sync.day)[k] = sync.metrics[k]

\* C38: a sync upsert and a manual weight entry for the same date commute:
\* in either order the record ends with the weight entered and the synced
\* metrics, and the sync never clears or changes the weight.
C38_SyncAndManualWeightCommute ==
    [][ /\ (commands' = commands + 1 /\ SyncAndWeight(last, last'))
            => HoldsBoth(daily_metrics', last, last')
        /\ (commands' = commands + 1 /\ SyncAndWeight(last', last))
            => HoldsBoth(daily_metrics', last', last)
        /\ (IsCall("save_daily_metrics")
            /\ "weight_kg" \notin DOMAIN last'.metrics
            /\ HasRecord(daily_metrics, last'.day))
            => RecordOf(daily_metrics', last'.day).weight_kg
                   = RecordOf(daily_metrics, last'.day).weight_kg ]_vars

\* ---------------------------------------------------------------------
\* Properties of interleaved writers (specification WriterSpec)
\* ---------------------------------------------------------------------
\* the records of the date
RecordsOf(rows, day) == {i \in 1..Len(rows) : rows[i].date = day}

\* C39: when a sync upsert and a manual weight entry for the same
\* not-yet-stored date interleave (both read 'no record' before either
\* writes), neither write is lost and no duplicate record of the date is
\* created.
C39_InterleavedWritesBothLand ==
    (last.raced /\ fired = {}) =>
        \A w \in last.done :
            /\ ~w.raised
            /\ Cardinality(RecordsOf(daily_metrics, w.day)) = 1
            /\ \A k \in DOMAIN w.metrics \cap NullableFields :
                  RecordOf(daily_metrics, w.day)[k] = w.metrics[k]

\* ---------------------------------------------------------------------
\* Properties of get_yesterday_summary (specification SummarySpec)
\* ---------------------------------------------------------------------
\* C40: get_yesterday_summary queries sleep under today's date (the
\* wake-up date) and activity and health under yesterday's date, in the
\* order sleep, activity, health (each query starts from the session the
\* one before it left), and dates the resulting summary yesterday.
C40_SleepOfTodayActivityOfYesterday ==
    [][(commands' = commands + 1 /\ last'.op = "get_yesterday_summary") =>
        LET today == date_today(now, tz)
            f == last'.fetched
            in == last'.in
        IN  /\ last'.asked.sleep = today
            /\ last'.asked.activity = today - 1
            /\ last'.asked.health = today - 1
            /\ f.sleep = get_sleep_data(client, in.sleep)
            /\ f.activity = get_activity_data(f.sleep.client, in.activity)
            /\ f.health = get_health_data(f.activity.client, in.login, in.health)
            /\ client' = f.health.client
            /\ ~last'.raised =>
                  /\ last'.summary.date = today - 1
                  /\ last'.summary.sleep = f.sleep.sleep
                  /\ last'.summary.steps = f.activity.steps
    ]_vars

\* a call late in the UTC day in a zone ahead of UTC (the local date is
\* the next one) returned a summary, the sleep query having changed the
\* session the activity query started from
C40_Witness ==
    /\ last.op = "get_yesterday_summary"
    /\ ~last.raised
    /\ tz = 1
    /\ utc_day(now) = 0
    /\ last.asked.sleep = 1
    /\ last.summary.date = 0
    /\ last.summary.sleep = ProviderSleep
    /\ last.fetched.sleep.client = "session"
    /\ last.fetched.activity.client = "none"

====
